---- MODULE Spec2Model ----
(***************************************************************************)
(* Variant ingestion of scout (scout/adapter/mongo/variant.py).            *)
(*                                                                         *)
(* The state is the variant collection, the variant file registered for   *)
(* the cases, and the position of one load_variants call with its          *)
(* arguments and local variables.  One action per step of load_variants:   *)
(* Opening (lines 455-523), one streamed record (526-571), rank            *)
(* renumbering (573), the region compound refresh (576-612), return (616). *)
(***************************************************************************)
EXTENDS Integers, Sequences, FiniteSets, TLC

VARIABLES
    store,   \* variant_collection: the documents in natural (insertion) order
    vcf,     \* the records of the variant file the cases register
    pc,      \* position of the load_variants call
    arg,     \* the arguments of the current (or last) call
    loc,     \* the local variables of the call
    ret,     \* what the call gave its caller: a count or an error
    hist,    \* history: number of calls, the store at call entry, and whether
             \* the call repeats the arguments of a call that has just returned
    env,     \* the other collections: the cases and the gene catalog
    qry,     \* the last call of a query operation: its arguments and result
    batch    \* two calls of load_variants that run at the same time

vars == <<store, vcf, pc, arg, loc, ret, hist, env, qry, batch>>

-----------------------------------------------------------------------------
(* Bounds of the model *)

\* longest variant file drawn in Init
MaxLen == 1
\* number of load_variants calls in one behaviour
MaxLoads == 2

-----------------------------------------------------------------------------
(* Python values *)

\* None is the empty tuple, any other optional value x is <<x>>
None == <<>>
Some(x) == <<x>>

\* bool(x) of an optional integer: None and 0 are falsy
TruthyInt(o) == o # None /\ o[1] # 0

\* bool(x) of an optional string (a tuple of characters): None and "" are falsy
TruthyStr(o) == o # None /\ o[1] # <<>>

\* sub in s, for strings as tuples of characters
Contains(sub, s) ==
    \E i \in 0..(Len(s) - Len(sub)) :
        \A j \in 1..Len(sub) : s[i + j] = sub[j]

Range(s) == {s[i] : i \in DOMAIN s}

-----------------------------------------------------------------------------
(* Program constants *)

\* padding around a gene, "same padding as VEP"
GenePadding == 5000
\* default rank threshold of a region load
RegionThreshold == -1000
\* default rank threshold of a genome-wide load
DefaultThreshold == 0

-----------------------------------------------------------------------------
(* The inputs: cases, files, records *)

Chr1 == <<"1">>
ChrMT == <<"M", "T">>
Chroms == {Chr1, ChrMT}

\* RankScore of a record: absent, or a score
Scores == {None, Some(-5), Some(3)}

VariantTypes == {"clinical", "research"}
Categories == {"snv", "sv", "cancer"}

\* the keys of case_obj['vcf_files'] each case has registered
CaseObjs ==
    { [_id |-> "c1", owner |-> "inst1",
       vcf_files |-> {"vcf_snv", "vcf_sv", "vcf_snv_research"}],
      [_id |-> "c2", owner |-> "inst1",
       vcf_files |-> {"vcf_snv"}] }

\* a raw record of the variant file: where it lies, its RankScore, whether
\* its fields are malformed, its Compounds annotation and its genes
Rec(chrom, pos, score, bad, comps, genes) ==
    [CHROM |-> chrom, POS |-> pos, RankScore |-> score, malformed |-> bad,
     Compounds |-> comps, genes |-> genes]

Records ==
    { Rec(c, 1, s, b, <<>>, <<>>) : c \in Chroms, s \in Scores, b \in BOOLEAN }

RECURSIVE SeqsUpTo(_, _)
SeqsUpTo(S, n) ==
    IF n = 0 THEN {<<>>}
    ELSE LET shorter == SeqsUpTo(S, n - 1)
         IN  shorter \cup {Append(f, r) : f \in shorter, r \in S}

\* ten records: seven above the default threshold, one mitochondrial and
\* two others below it
ExampleFile ==
    << Rec(Chr1, 11, Some(3), FALSE, <<>>, <<>>),
       Rec(Chr1, 12, Some(-5), FALSE, <<>>, <<>>),
       Rec(Chr1, 13, Some(9), FALSE, <<>>, <<>>),
       Rec(Chr1, 14, Some(3), FALSE, <<>>, <<>>),
       Rec(ChrMT, 15, Some(-5), FALSE, <<>>, <<>>),
       Rec(Chr1, 16, Some(7), FALSE, <<>>, <<>>),
       Rec(Chr1, 17, Some(-2), FALSE, <<>>, <<>>),
       Rec(Chr1, 18, Some(12), FALSE, <<>>, <<>>),
       Rec(Chr1, 19, Some(4), FALSE, <<>>, <<>>),
       Rec(Chr1, 20, Some(6), FALSE, <<>>, <<>>) >>

\* three records that refer to each other as compounds
CompoundFile ==
    << Rec(Chr1, 1, Some(3), FALSE,
           << [site |-> <<Chr1, 2>>, combined_score |-> 4],
              [site |-> <<ChrMT, 1>>, combined_score |-> 7] >>, <<7>>),
       Rec(Chr1, 2, Some(3), FALSE,
           << [site |-> <<Chr1, 1>>, combined_score |-> 4] >>, <<7, 8>>),
       Rec(ChrMT, 1, Some(-5), FALSE, <<>>, <<>>) >>

\* a record inserted, a malformed record the default threshold filters out,
\* a malformed mitochondrial record and a record after it
FaultyFile ==
    << Rec(Chr1, 1, Some(3), FALSE, <<>>, <<>>),
       Rec(Chr1, 2, Some(-5), TRUE, <<>>, <<>>),
       Rec(ChrMT, 1, Some(3), TRUE, <<>>, <<>>),
       Rec(Chr1, 3, None, FALSE, <<>>, <<>>) >>

\* four records of one chromosome; the first has three compounds, two of
\* them with the same combined score, and one that lies on another
\* chromosome
TieFile ==
    << Rec(Chr1, 1, Some(3), FALSE,
           << [site |-> <<Chr1, 2>>, combined_score |-> 4],
              [site |-> <<ChrMT, 1>>, combined_score |-> 9],
              [site |-> <<Chr1, 3>>, combined_score |-> 7],
              [site |-> <<Chr1, 4>>, combined_score |-> 4] >>, <<7>>),
       Rec(Chr1, 2, Some(5), FALSE, <<>>, <<7>>),
       Rec(Chr1, 3, Some(4), FALSE, <<>>, <<8>>),
       Rec(Chr1, 4, Some(6), FALSE, <<>>, <<>>) >>

Files ==
    SeqsUpTo(Records, MaxLen) \cup {ExampleFile, CompoundFile, FaultyFile, TieFile}

\* the rank_threshold values a caller passes
ThresholdInputs == {None, Some(0), Some(3)}

\* a gene of the catalog
GeneObjs == { [chromosome |-> Chr1, start |-> 5001, end |-> 5002] }

\* the chrom, start, end and gene_obj a caller passes
NoRegion == [chrom |-> None, start |-> None, end |-> None, gene_obj |-> None]

RegionInputs ==
    { NoRegion,
      [chrom |-> Some(Chr1), start |-> Some(1), end |-> Some(1), gene_obj |-> None],
      [chrom |-> Some(Chr1), start |-> None, end |-> None, gene_obj |-> None] }
    \cup { [chrom |-> None, start |-> None, end |-> None, gene_obj |-> Some(g)] :
             g \in GeneObjs }

\* four records of one chromosome: two that refer to each other as
\* compounds, one of them also to the third, which the default threshold
\* filters out, and a fourth with the highest score
QueryFile ==
    << Rec(Chr1, 1, Some(3), FALSE,
           << [site |-> <<Chr1, 2>>, combined_score |-> 4],
              [site |-> <<Chr1, 3>>, combined_score |-> 7] >>, <<7>>),
       Rec(Chr1, 2, Some(3), FALSE,
           << [site |-> <<Chr1, 1>>, combined_score |-> 4] >>, <<7, 8>>),
       Rec(Chr1, 3, Some(-5), FALSE, <<>>, <<8>>),
       Rec(Chr1, 11, Some(9), FALSE, <<>>, <<9>>) >>

\* genes of the catalog: one that starts beyond the padding, one within it
\* and one at its edge
GeneFar == [chromosome |-> Chr1, start |-> 5001, end |-> 5002]
GeneNear == [chromosome |-> Chr1, start |-> 1000, end |-> 2000]
GeneEdge == [chromosome |-> Chr1, start |-> 5000, end |-> 5002]

\* the calls with a gene_obj, with and without a chrom, start and end of the
\* caller's, and the call without a region
GeneRegionInputs ==
    { NoRegion }
    \cup { [chrom |-> None, start |-> None, end |-> None, gene_obj |-> Some(g)] :
             g \in {GeneFar, GeneNear, GeneEdge} }
    \cup { [chrom |-> Some(ChrMT), start |-> Some(2), end |-> Some(3),
            gene_obj |-> Some(g)] : g \in {GeneFar, GeneNear} }
    \cup { [chrom |-> Some(Chr1), start |-> Some(0), end |-> Some(3),
            gene_obj |-> None] }

-----------------------------------------------------------------------------
(* The variant builder: parse_variant and build_variant *)

\* the storage key of a variant: a fingerprint of the case, the variant
\* type, the category and the locus (alleles are not modelled: a locus has
\* one call)
DocumentId(case_id, variant_type, category, chrom, pos) ==
    <<case_id, variant_type, category, chrom, pos>>

\* the compound references of a built variant: the ids of the other variants
\* of the same case, type and category, with the combined score
BuildCompounds(rec, case_id, variant_type, category) ==
    [i \in DOMAIN rec.Compounds |->
        [variant |-> DocumentId(case_id, variant_type, category,
                                rec.Compounds[i].site[1], rec.Compounds[i].site[2]),
         combined_score |-> rec.Compounds[i].combined_score]]

BuildGenes(rec) ==
    [i \in DOMAIN rec.genes |->
        [hgnc_id |-> rec.genes[i], hgnc_symbol |-> Some(rec.genes[i]),
         region_annotation |-> Some("exonic"),
         functional_annotation |-> Some("missense")]]

\* the decimal digits of a natural number, as characters
RECURSIVE Digits(_)
Digits(n) ==
    LET digit == <<"0", "1", "2", "3", "4", "5", "6", "7", "8", "9">>
    IN  IF n < 10 THEN <<digit[n + 1]>>
        ELSE Digits(n \div 10) \o <<digit[(n % 10) + 1]>>

\* the positional id of a call: the same for every case and variant type
VariantId(rec) == <<rec.CHROM, rec.POS>>

\* the display name of a call: chromosome, position and variant type joined
\* by "_" (alleles are not modelled); the variant type is one symbol
DisplayName(rec, variant_type) ==
    rec.CHROM \o <<"_">> \o Digits(rec.POS) \o <<"_", variant_type>>

\* the variant object of a record; it has no variant_rank yet
BuildVariant(rec, case_obj, variant_type, category) ==
    [_id |-> DocumentId(case_obj._id, variant_type, category, rec.CHROM, rec.POS),
     variant_id |-> VariantId(rec),
     display_name |-> DisplayName(rec, variant_type),
     hgnc_ids |-> rec.genes,
     case_id |-> case_obj._id,
     institute |-> case_obj.owner,
     variant_type |-> variant_type,
     category |-> category,
     chromosome |-> rec.CHROM,
     position |-> rec.POS,
     end |-> rec.POS,
     rank_score |-> rec.RankScore,
     variant_rank |-> None,
     genes |-> BuildGenes(rec),
     compounds |-> BuildCompounds(rec, case_obj._id, variant_type, category)]

-----------------------------------------------------------------------------
(* The variant collection *)

Ids(s) == {s[i]._id : i \in DOMAIN s}

\* find_one({'_id': id}): the document, or None
FindOne(s, id) ==
    IF id \in Ids(s) THEN Some(CHOOSE d \in Range(s) : d._id = id) ELSE None

\* find({'case_id':, 'category':, 'variant_type':}): in natural order
FindScope(s, case_id, variant_type, category) ==
    SelectSeq(s, LAMBDA d : /\ d.case_id = case_id
                            /\ d.category = category
                            /\ d.variant_type = variant_type)

\* a comes before b in a sort on rank_score, DESCENDING: a missing
\* rank_score sorts below every score
SortsBefore(a, b) ==
    /\ a.rank_score # None
    /\ b.rank_score = None \/ a.rank_score[1] > b.rank_score[1]

\* x put into a sorted sequence, after the documents it does not sort before
RECURSIVE InsertSorted(_, _)
InsertSorted(x, sorted) ==
    IF sorted = <<>> THEN <<x>>
    ELSE IF SortsBefore(x, Head(sorted)) THEN <<x>> \o sorted
    ELSE <<Head(sorted)>> \o InsertSorted(x, Tail(sorted))

\* cursor.sort('rank_score', pymongo.DESCENDING); documents with equal
\* rank_score keep their find order
RECURSIVE SortDesc(_)
SortDesc(s) ==
    IF s = <<>> THEN <<>>
    ELSE InsertSorted(s[Len(s)], SortDesc(SubSeq(s, 1, Len(s) - 1)))

\* the index (from 0) of the document with this id in a sequence
IndexOf(s, id) == (CHOOSE i \in DOMAIN s : s[i]._id = id) - 1

\* update_variants with the rank counted from 0
UpdateVariantsFromZero(s, case_id, variant_type, category) ==
    LET variants == SortDesc(FindScope(s, case_id, variant_type, category))
    IN  [i \in DOMAIN s |->
            IF s[i]._id \in Ids(variants)
            THEN [s[i] EXCEPT !.variant_rank = Some(IndexOf(variants, s[i]._id))]
            ELSE s[i]]

\* update_variants: every variant of the scope gets variant_rank index + 1,
\* index counting the scope's variants by descending rank_score
UpdateVariants(s, case_id, variant_type, category) ==
    LET variants == SortDesc(FindScope(s, case_id, variant_type, category))
    IN  [i \in DOMAIN s |->
            IF s[i]._id \in Ids(variants)
            THEN [s[i] EXCEPT !.variant_rank = Some(IndexOf(variants, s[i]._id) + 1)]
            ELSE s[i]]

\* delete_variants that does not look at the case
DeleteVariantsAnyCase(s, case_id, variant_type, category) ==
    SelectSeq(s, LAMBDA d : ~ (/\ d.variant_type = variant_type
                               /\ category # None => d.category = category[1]))

\* delete_variants that deletes nothing
DeleteVariantsNothing(s, case_id, variant_type, category) == s

\* delete_variants that spares the variants that have a rank
DeleteVariantsUnranked(s, case_id, variant_type, category) ==
    SelectSeq(s, LAMBDA d : ~ (/\ d.case_id = case_id
                               /\ d.variant_type = variant_type
                               /\ d.variant_rank = None))

\* delete_variants: delete_many on case_id and variant_type, and on the
\* category only when one is given
DeleteVariants(s, case_id, variant_type, category) ==
    SelectSeq(s, LAMBDA d : ~ (/\ d.case_id = case_id
                               /\ d.variant_type = variant_type
                               /\ category # None => d.category = category[1]))

\* load_variant that never raises IntegrityError
IntegrityErrorNever(s, variant_obj) == FALSE

\* load_variant raises IntegrityError when the _id is already stored
IntegrityError(s, variant_obj) == variant_obj._id \in Ids(s)

\* load_variant: insert_one
LoadVariant(s, variant_obj) == Append(s, variant_obj)

\* update_variant: find_one_and_replace on the _id
UpdateVariant(s, variant_obj) ==
    [i \in DOMAIN s |-> IF s[i]._id = variant_obj._id THEN variant_obj ELSE s[i]]

-----------------------------------------------------------------------------
(* The compound resolver *)

\* the gene summary update_compounds copies from a compound's variant
GeneSummary(variant_obj) ==
    [i \in DOMAIN variant_obj.genes |->
        [hgnc_id |-> variant_obj.genes[i].hgnc_id,
         hgnc_symbol |-> variant_obj.genes[i].hgnc_symbol,
         region_annotation |-> variant_obj.genes[i].region_annotation,
         functional_annotation |-> variant_obj.genes[i].functional_annotation]]

\* update_compounds that looks every target up in the collection
UpdateCompoundsFromStore(variant, variant_objs, s) ==
    LET found == SelectSeq(variant.compounds, LAMBDA c : FindOne(s, c.variant) # None)
    IN  [i \in DOMAIN found |->
            [variant |-> found[i].variant,
             combined_score |-> found[i].combined_score,
             rank_score |-> FindOne(s, found[i].variant)[1].rank_score,
             not_loaded |-> FALSE,
             genes |-> GeneSummary(FindOne(s, found[i].variant)[1])]]

\* update_compounds that does not copy the rank_score of the target
UpdateCompoundsNoScore(variant, variant_objs, s) ==
    LET Lookup(id) == IF variant_objs # None /\ variant_objs[1] # <<>>
                      THEN FindOne(variant_objs[1], id)
                      ELSE FindOne(s, id)
        found == SelectSeq(variant.compounds, LAMBDA c : Lookup(c.variant) # None)
    IN  [i \in DOMAIN found |->
            [variant |-> found[i].variant,
             combined_score |-> found[i].combined_score,
             rank_score |-> None,
             not_loaded |-> FALSE,
             genes |-> GeneSummary(Lookup(found[i].variant)[1])]]

\* update_compounds: variant_objs is None or the variants at hand (a
\* dictionary on _id, here the sequence of its values); an empty dictionary
\* is falsy and the collection is asked instead.  A compound whose variant
\* is not found is passed over (continue) and is not in the result.
UpdateCompounds(variant, variant_objs, s) ==
    LET Lookup(id) == IF variant_objs # None /\ variant_objs[1] # <<>>
                      THEN FindOne(variant_objs[1], id)
                      ELSE FindOne(s, id)
        found == SelectSeq(variant.compounds, LAMBDA c : Lookup(c.variant) # None)
    IN  [i \in DOMAIN found |->
            [variant |-> found[i].variant,
             combined_score |-> found[i].combined_score,
             rank_score |-> Lookup(found[i].variant)[1].rank_score,
             not_loaded |-> FALSE,
             genes |-> GeneSummary(Lookup(found[i].variant)[1])]]

\* an insertion that puts a compound before those of the same score
RECURSIVE InsertCompoundBeforeTies(_, _)
InsertCompoundBeforeTies(x, sorted) ==
    IF sorted = <<>> THEN <<x>>
    ELSE IF -x.combined_score <= -Head(sorted).combined_score THEN <<x>> \o sorted
    ELSE <<Head(sorted)>> \o InsertCompoundBeforeTies(x, Tail(sorted))

RECURSIVE InsertCompound(_, _)
InsertCompound(x, sorted) ==
    IF sorted = <<>> THEN <<x>>
    ELSE IF -x.combined_score < -Head(sorted).combined_score THEN <<x>> \o sorted
    ELSE <<Head(sorted)>> \o InsertCompound(x, Tail(sorted))

\* sorted(compounds, key=lambda compound: -compound['combined_score'])
RECURSIVE SortCompounds(_)
SortCompounds(s) ==
    IF s = <<>> THEN <<>>
    ELSE InsertCompound(s[Len(s)], SortCompounds(SubSeq(s, 1, Len(s) - 1)))

\* build_query with variant_type, chrom, start and end: the variants of the
\* case, category and type that lie in the region
InRegionQuery(d, case_id, variant_type, category, chrom, start, end) ==
    /\ d.case_id = case_id
    /\ d.category = category
    /\ d.variant_type = variant_type
    /\ d.chromosome = chrom
    /\ d.position <= end
    /\ d.position >= start

\* lines 576-612: the compounds of every variant of the region that has
\* compounds are updated from the variants of the region, sorted and stored
RefreshRegion(s, case_id, variant_type, category, chrom, start, end) ==
    LET variants == SelectSeq(s, LAMBDA d :
                        InRegionQuery(d, case_id, variant_type, category,
                                      chrom, start, end))
        Refreshed(variant_obj) ==
            IF variant_obj.compounds = <<>> THEN variant_obj
            ELSE UpdateVariant(<<variant_obj>>,
                    [variant_obj EXCEPT !.compounds =
                        SortCompounds(UpdateCompounds(variant_obj, Some(variants), s))])[1]
    IN  [i \in DOMAIN s |->
            IF s[i]._id \in Ids(variants) THEN Refreshed(s[i]) ELSE s[i]]

-----------------------------------------------------------------------------
(* load_variants: Opening *)

\* lines 459-474: the file of the case for the variant type and category,
\* None when the case registers none
\* the file lookup that takes the clinical snv file whatever is asked for
VariantFileUnchecked(case_obj, variant_type, category) == Some("vcf_snv")

VariantFile(case_obj, variant_type, category) ==
    LET key == CASE variant_type = "clinical" /\ category = "snv" -> Some("vcf_snv")
                 [] variant_type = "clinical" /\ category = "sv" -> Some("vcf_sv")
                 [] variant_type = "clinical" /\ category = "cancer" -> Some("vcf_cancer")
                 [] variant_type = "research" /\ category = "snv" -> Some("vcf_snv_research")
                 [] variant_type = "research" /\ category = "sv" -> Some("vcf_sv_research")
                 [] variant_type = "research" /\ category = "cancer" -> Some("vcf_cancer_research")
                 [] OTHER -> None
    IN  IF key # None /\ key[1] \in case_obj.vcf_files THEN key ELSE None

Max(a, b) == IF a > b THEN a ELSE b

\* the start of the caller kept when a gene_obj is given too
RegionStartCaller(r) ==
    IF r.gene_obj # None /\ r.start = None
    THEN Some(IF r.gene_obj[1].start - GenePadding > 0
              THEN r.gene_obj[1].start - GenePadding ELSE 0)
    ELSE r.start

\* the end of the gene taken without padding
RegionEndUnpadded(r) ==
    IF r.gene_obj # None THEN Some(r.gene_obj[1].end) ELSE r.end

\* lines 501-505: chrom, start and end once a gene_obj has overwritten them
RegionChrom(r) ==
    IF r.gene_obj # None THEN Some(r.gene_obj[1].chromosome) ELSE r.chrom
RegionStart(r) ==
    IF r.gene_obj # None THEN Some(Max(r.gene_obj[1].start - GenePadding, 0)) ELSE r.start
RegionEnd(r) ==
    IF r.gene_obj # None THEN Some(r.gene_obj[1].end + GenePadding) ELSE r.end

\* lines 506-512: rank_threshold or -1000 with a chrom, rank_threshold or 0
\* without
EffectiveThreshold(rank_threshold, chrom) ==
    IF TruthyStr(chrom)
    THEN (IF TruthyInt(rank_threshold) THEN rank_threshold[1] ELSE RegionThreshold)
    ELSE (IF TruthyInt(rank_threshold) THEN rank_threshold[1] ELSE DefaultThreshold)

\* a check of start and end that takes only None as missing
RegionIncompleteNone(start, end) == start = None \/ end = None

\* line 508: not (start and end)
RegionIncomplete(start, end) == ~ (TruthyInt(start) /\ TruthyInt(end))

\* line 510: "{0}:{1}-{2}", here the three values; "" is the empty tuple
RegionString(chrom, start, end) == <<chrom[1], start[1], end[1]>>

\* vcf_obj(region): the records of the file, those of the region when one
\* is given
VcfCall(file, region) ==
    IF region = <<>> THEN file
    ELSE SelectSeq(file, LAMBDA v : /\ v.CHROM = region[1]
                                    /\ region[2] <= v.POS
                                    /\ v.POS <= region[3])

\* line 527
MtVariant(variant) == Contains(<<"M", "T">>, variant.CHROM)

\* the rank filter with >= for >
PassesRankFilterGe(rank_score, rank_threshold, mt_variant) ==
    (rank_score = None) \/ (rank_score[1] >= rank_threshold) \/ mt_variant

\* the rank filter without the mitochondrial exception
PassesRankFilterNoMt(rank_score, rank_threshold, mt_variant) ==
    (rank_score = None) \/ (rank_score[1] > rank_threshold)

\* line 529
PassesRankFilter(rank_score, rank_threshold, mt_variant) ==
    (rank_score = None) \/ (rank_score[1] > rank_threshold) \/ mt_variant

-----------------------------------------------------------------------------
(* load_variants: the state machine *)

NoArg == [case_obj |-> None, variant_type |-> "clinical", category |-> "snv",
          rank_threshold |-> None, chrom |-> None, start |-> None, end |-> None,
          gene_obj |-> None]

\* the local variables before Opening has set them
NoLoc == [rank_threshold |-> None, chrom |-> None, start |-> None, end |-> None,
          region |-> <<>>, stream |-> <<>>, nr_variants |-> 0, nr_inserted |-> 0]

NoRet == [result |-> None, error |-> None, raised_in |-> "none"]

\* no case and no gene is stored
NoEnv == [cases |-> <<>>, genes |-> <<>>]

\* no query operation has been called
NoQuery == [op |-> "none"]

\* no two calls run at the same time
NoBatch == <<>>

Raise(error, where) == [result |-> None, error |-> Some(error), raised_in |-> where]

Init ==
    /\ store = <<>>
    /\ vcf \in Files
    /\ pc = "idle"
    /\ arg = NoArg
    /\ loc = NoLoc
    /\ ret = NoRet
    /\ hist = [loads |-> 0, pre_store |-> <<>>, rerun |-> FALSE]
    /\ env = NoEnv
    /\ qry = NoQuery
    /\ batch = NoBatch

\* lines 455-523: a call of load_variants, up to the first record
Open(case_obj, variant_type, category, rank_threshold, r) ==
    /\ arg' = [case_obj |-> Some(case_obj), variant_type |-> variant_type,
               category |-> category, rank_threshold |-> rank_threshold,
               chrom |-> r.chrom, start |-> r.start, end |-> r.end,
               gene_obj |-> r.gene_obj]
    /\ hist' = [loads |-> hist.loads + 1,
                pre_store |-> store,
                rerun |-> pc = "done" /\ arg' = arg]
    /\ LET variant_file == VariantFile(case_obj, variant_type, category)
           chrom == RegionChrom(r)
           start == RegionStart(r)
           end == RegionEnd(r)
           threshold == EffectiveThreshold(rank_threshold, chrom)
           region == IF TruthyStr(chrom) THEN RegionString(chrom, start, end)
                     ELSE <<>>
       IN  IF variant_file = None
           THEN /\ pc' = "failed"
                /\ ret' = Raise("Vcf file does not seem to exist", "opening")
                /\ loc' = NoLoc
           ELSE IF TruthyStr(chrom) /\ RegionIncomplete(start, end)
           THEN /\ pc' = "failed"
                /\ ret' = Raise("Specify chrom start and end", "opening")
                /\ loc' = [NoLoc EXCEPT !.rank_threshold = Some(threshold),
                                        !.chrom = chrom, !.start = start,
                                        !.end = end]
           ELSE /\ pc' = "streaming"
                /\ ret' = NoRet
                /\ loc' = [rank_threshold |-> Some(threshold), chrom |-> chrom,
                           start |-> start, end |-> end, region |-> region,
                           stream |-> VcfCall(vcf, region),
                           nr_variants |-> 0, nr_inserted |-> 0]
    /\ UNCHANGED <<store, vcf, env, qry, batch>>

\* lines 526-571: one record of the stream.  A record that passes the rank
\* filter is parsed and built, which raises when its fields are malformed,
\* and loaded; an IntegrityError of load_variant is passed over.  Any other
\* exception deletes the variants of the case and variant type and is
\* raised again.
StreamRecord ==
    /\ pc = "streaming"
    /\ loc.stream # <<>>
    /\ LET variant == Head(loc.stream)
           case_obj == arg.case_obj[1]
           mt_variant == MtVariant(variant)
           rank_score == variant.RankScore
           variant_obj == BuildVariant(variant, case_obj, arg.variant_type,
                                       arg.category)
           seen == [loc EXCEPT !.stream = Tail(loc.stream),
                               !.nr_variants = Len(VcfCall(vcf, loc.region))
                                               - Len(loc.stream)]
       IN  IF ~ PassesRankFilter(rank_score, loc.rank_threshold[1], mt_variant)
           THEN /\ loc' = seen
                /\ UNCHANGED <<store, pc, ret>>
           ELSE IF variant.malformed
           THEN /\ store' = DeleteVariants(store, case_obj._id, arg.variant_type, None)
                /\ pc' = "failed"
                /\ ret' = Raise("malformed record", "streaming")
                /\ loc' = [seen EXCEPT !.stream = loc.stream]
           ELSE IF IntegrityError(store, variant_obj)
           THEN /\ loc' = seen
                /\ UNCHANGED <<store, pc, ret>>
           ELSE /\ store' = LoadVariant(store, variant_obj)
                /\ loc' = [seen EXCEPT !.nr_inserted = loc.nr_inserted + 1]
                /\ UNCHANGED <<pc, ret>>
    /\ UNCHANGED <<vcf, arg, hist, env, qry, batch>>

\* line 573: the stream is at its end, update_variants renumbers the scope
Renumber ==
    /\ pc = "streaming"
    /\ loc.stream = <<>>
    /\ store' = UpdateVariants(store, arg.case_obj[1]._id, arg.variant_type,
                               arg.category)
    /\ pc' = "renumbered"
    /\ UNCHANGED <<vcf, arg, loc, ret, hist, env, qry, batch>>

\* lines 576-616: a region load updates the compounds of the region and
\* returns nr_inserted
RefreshCompounds ==
    /\ pc = "renumbered"
    /\ loc.region # <<>>
    /\ store' = RefreshRegion(store, arg.case_obj[1]._id, arg.variant_type,
                              arg.category, loc.chrom[1], loc.start[1], loc.end[1])
    /\ pc' = "done"
    /\ ret' = [NoRet EXCEPT !.result = Some(loc.nr_inserted)]
    /\ UNCHANGED <<vcf, arg, loc, hist, env, qry, batch>>

\* lines 614-616: a load without region returns nr_inserted
Return ==
    /\ pc = "renumbered"
    /\ loc.region = <<>>
    /\ pc' = "done"
    /\ ret' = [NoRet EXCEPT !.result = Some(loc.nr_inserted)]
    /\ UNCHANGED <<store, vcf, arg, loc, hist, env, qry, batch>>

\* update_variants that raises after it has updated the first done variants
\* of the sorted scope
UpdateVariantsUpTo(s, case_id, variant_type, category, done) ==
    LET variants == SortDesc(FindScope(s, case_id, variant_type, category))
    IN  [i \in DOMAIN s |->
            IF s[i]._id \in Ids(variants) /\ IndexOf(variants, s[i]._id) < done
            THEN [s[i] EXCEPT !.variant_rank = Some(IndexOf(variants, s[i]._id) + 1)]
            ELSE s[i]]

\* lines 576-612 raising after the first done variants of the region have
\* been looked at
RefreshRegionUpTo(s, case_id, variant_type, category, chrom, start, end, done) ==
    LET whole == RefreshRegion(s, case_id, variant_type, category, chrom, start, end)
        variants == SelectSeq(s, LAMBDA d :
                        InRegionQuery(d, case_id, variant_type, category,
                                      chrom, start, end))
    IN  [i \in DOMAIN s |->
            IF s[i]._id \in Ids(variants) /\ IndexOf(variants, s[i]._id) < done
            THEN whole[i]
            ELSE s[i]]

\* lines 573-612 stand after the try statement of lines 525-571: an
\* exception they raise meets no handler and the collection stays as the
\* failed step left it
OnFinalizingError(s, case_id, variant_type) == s

\* line 573 raising: update_variants fails on the find or on an update,
\* after done variants of the scope have been renumbered
RenumberFails ==
    /\ pc = "streaming"
    /\ loc.stream = <<>>
    /\ LET case_id == arg.case_obj[1]._id
           nr == Len(FindScope(store, case_id, arg.variant_type, arg.category))
       IN  \E done \in 0..Max(nr - 1, 0) :
              store' = OnFinalizingError(
                          UpdateVariantsUpTo(store, case_id, arg.variant_type,
                                             arg.category, done),
                          case_id, arg.variant_type)
    /\ pc' = "crashed"
    /\ ret' = Raise("update_variants failed", "finalizing")
    /\ UNCHANGED <<vcf, arg, loc, hist, env, qry, batch>>

\* lines 576-612 raising: the compound refresh of a region load fails on
\* the find or on a variant, after done variants have been looked at
RefreshFails ==
    /\ pc = "renumbered"
    /\ loc.region # <<>>
    /\ LET case_id == arg.case_obj[1]._id
           nr == Len(SelectSeq(store, LAMBDA d :
                        InRegionQuery(d, case_id, arg.variant_type, arg.category,
                                      loc.chrom[1], loc.start[1], loc.end[1])))
       IN  \E done \in 0..Max(nr - 1, 0) :
              store' = OnFinalizingError(
                          RefreshRegionUpTo(store, case_id, arg.variant_type,
                                            arg.category, loc.chrom[1],
                                            loc.start[1], loc.end[1], done),
                          case_id, arg.variant_type)
    /\ pc' = "crashed"
    /\ ret' = Raise("compound update failed", "finalizing")
    /\ UNCHANGED <<vcf, arg, loc, hist, env, qry, batch>>

\* the calls of load_variants.  A call that finds no file raises before it
\* reads rank_threshold, chrom, start, end or gene_obj, which are then left
\* at their defaults.
Load ==
    /\ pc \in {"idle", "done", "failed"}
    /\ hist.loads < MaxLoads
    /\ \E case_obj \in CaseObjs, variant_type \in VariantTypes,
          category \in Categories, rank_threshold \in ThresholdInputs,
          r \in RegionInputs :
           /\ VariantFile(case_obj, variant_type, category) = None
                 => rank_threshold = None /\ r = NoRegion
           /\ Open(case_obj, variant_type, category, rank_threshold, r)

Next ==
    \/ Load
    \/ StreamRecord
    \/ Renumber
    \/ RefreshCompounds
    \/ Return

Spec == Init /\ [][Next]_vars

-----------------------------------------------------------------------------
(* The query operations *)

\* the store after a genome-wide load_variants of the file with the default
\* threshold has returned
RECURSIVE Inserted(_, _, _, _, _)
Inserted(s, file, case_obj, variant_type, category) ==
    IF file = <<>> THEN s
    ELSE LET variant == Head(file)
             variant_obj == BuildVariant(variant, case_obj, variant_type, category)
             passes == PassesRankFilter(variant.RankScore, DefaultThreshold,
                                        MtVariant(variant))
         IN  Inserted(IF passes /\ ~ IntegrityError(s, variant_obj)
                      THEN LoadVariant(s, variant_obj) ELSE s,
                      Tail(file), case_obj, variant_type, category)

Loaded(s, file, case_obj, variant_type, category) ==
    UpdateVariants(Inserted(s, file, case_obj, variant_type, category),
                   case_obj._id, variant_type, category)

CaseC1 == CHOOSE c \in CaseObjs : c._id = "c1"
CaseC2 == CHOOSE c \in CaseObjs : c._id = "c2"

\* a case of another institute with a cancer file
CaseC3 == [_id |-> "c3", owner |-> "inst2", vcf_files |-> {"vcf_cancer", "vcf_sv"}]

\* the stores the query operations are called on: empty, and after one to
\* five loads
QueryStore1 == Loaded(<<>>, QueryFile, CaseC1, "clinical", "snv")
QueryStore2 == Loaded(QueryStore1, QueryFile, CaseC2, "clinical", "snv")
QueryStore3 == Loaded(QueryStore2, QueryFile, CaseC1, "clinical", "sv")
QueryStore4 == Loaded(QueryStore3, ExampleFile, CaseC1, "research", "snv")
QueryStore5 ==
    Loaded(Loaded(QueryStore3, QueryFile, CaseC3, "clinical", "cancer"),
           QueryFile, CaseC3, "clinical", "sv")
\* three records of one chromosome: the genes of the first and of the
\* second are the same two in either order, one of them starting at 0, and
\* the third lies beyond both genes and has a gene the catalog lacks
OverlapFile ==
    << Rec(Chr1, 1, Some(3), FALSE, <<>>, <<6, 9, 8>>),
       Rec(Chr1, 5, Some(4), FALSE, <<>>, <<8, 6>>),
       Rec(Chr1, 12, Some(9), FALSE, <<>>, <<9>>) >>

QueryStore6 ==
    Loaded(Loaded(<<>>, OverlapFile, CaseC1, "clinical", "snv"),
           OverlapFile, CaseC1, "clinical", "sv")

QueryStores ==
    {<<>>, QueryStore1, QueryStore2, QueryStore3, QueryStore4, QueryStore5,
     QueryStore6}

\* the gene catalog: the genes 7 and 8; no other hgnc id resolves
GeneCatalog ==
    << [hgnc_id |-> 6, chromosome |-> Chr1, start |-> 0, end |-> 1],
       [hgnc_id |-> 7, chromosome |-> Chr1, start |-> 1, end |-> 2],
       [hgnc_id |-> 8, chromosome |-> Chr1, start |-> 2, end |-> 11] >>

\* the variant_objs update_compounds is given: none, an empty dictionary, or
\* the variants of the case that lie at positions 1 to 2
VariantObjsInputs(s, variant) ==
    { None, Some(<<>>),
      Some(SelectSeq(s, LAMBDA d : d.case_id = variant.case_id /\ d.position <= 2)) }

\* causatives that cases list: the variant 1:1 of c1, the variant 1:11 of
\* c1, the variants 1:1 and 1:2 of c2, and a variant of c2 that is stored
\* in no store
CausativeA == DocumentId("c1", "clinical", "snv", Chr1, 1)
CausativeA11 == DocumentId("c1", "clinical", "snv", Chr1, 11)
CausativeB == DocumentId("c2", "clinical", "snv", Chr1, 1)
CausativeC == DocumentId("c2", "clinical", "snv", Chr1, 2)
CausativeGone == DocumentId("c2", "clinical", "snv", Chr1, 99)

\* a document of the case collection; causatives is None when the case has
\* no such field
CaseDoc(id, owner, causatives) ==
    [_id |-> id, owner |-> owner, collaborators |-> {owner},
     causatives |-> causatives]

\* the case collections: c1 and c2 of inst1 and c3 of inst2, each with or
\* without causatives
QueryCases ==
    { << CaseDoc("c1", "inst1", k1), CaseDoc("c2", "inst1", k2),
         CaseDoc("c3", "inst2", Some(<<CausativeC>>)) >> :
        k1 \in {None, Some(<<CausativeA>>), Some(<<CausativeA11>>)},
        k2 \in {None, Some(<<CausativeB>>), Some(<<CausativeB, CausativeC>>),
                Some(<<CausativeGone>>)} }

InitQuery ==
    /\ store \in QueryStores
    /\ vcf = <<>>
    /\ pc = "idle"
    /\ arg = NoArg
    /\ loc = NoLoc
    /\ ret = NoRet
    /\ hist = [loads |-> 0, pre_store |-> <<>>, rerun |-> FALSE]
    /\ \E cases \in QueryCases : env = [cases |-> cases, genes |-> GeneCatalog]
    /\ qry = NoQuery
    /\ batch = NoBatch

\* a call of update_compounds with a variant of the collection
UpdateCompoundsCall ==
    /\ qry = NoQuery
    /\ \E variant \in Range(store) :
          \E variant_objs \in VariantObjsInputs(store, variant) :
             qry' = [op |-> "update_compounds", variant |-> variant,
                     variant_objs |-> variant_objs,
                     result |-> UpdateCompounds(variant, variant_objs, store)]
    /\ UNCHANGED <<store, vcf, pc, arg, loc, ret, hist, env, batch>>

\* build_query(case_id, query, variant_ids, category): a variant of the
\* case, of the category and of the query's variant_type ('clinical' when
\* the query names none), its variant_id among variant_ids when some are
\* given
BuildQuery(d, case_id, variant_type, variant_ids, category) ==
    /\ d.case_id = case_id
    /\ d.category = category
    /\ d.variant_type = (IF variant_type = None THEN "clinical" ELSE variant_type[1])
    /\ (variant_ids # None /\ variant_ids[1] # <<>>) => d.variant_id \in Range(variant_ids[1])

\* a comes before b in a sort on variant_rank, ASCENDING: a missing rank
\* sorts above every rank
RankBefore(a, b) ==
    /\ b.variant_rank # None
    /\ a.variant_rank = None \/ a.variant_rank[1] < b.variant_rank[1]

RECURSIVE InsertByRank(_, _)
InsertByRank(x, sorted) ==
    IF sorted = <<>> THEN <<x>>
    ELSE IF RankBefore(x, Head(sorted)) THEN <<x>> \o sorted
    ELSE <<Head(sorted)>> \o InsertByRank(x, Tail(sorted))

\* cursor.sort('variant_rank', pymongo.ASCENDING)
RECURSIVE SortByRank(_)
SortByRank(s) ==
    IF s = <<>> THEN <<>>
    ELSE InsertByRank(s[Len(s)], SortByRank(SubSeq(s, 1, Len(s) - 1)))

\* lines 171-175: the sort of variants()
Sorting(s, sort_key) ==
    CASE sort_key = "variant_rank" -> SortByRank(s)
      [] sort_key = "rank_score" -> SortDesc(s)
      [] OTHER -> s

\* a cursor with skip and limit: the sorted documents after the first skip,
\* limit of them at most; a limit of 0 is no limit
Cursor(sorted, skip, limit) ==
    LET rest == SubSeq(sorted, skip + 1, Len(sorted))
    IN  IF limit = 0 THEN rest
        ELSE SubSeq(rest, 1, IF limit < Len(rest) THEN limit ELSE Len(rest))

\* lines 158-165: the limit variants() asks for
Limit(variant_ids, nr_of_variants, skip) ==
    IF variant_ids # None /\ variant_ids[1] # <<>> THEN Len(variant_ids[1])
    ELSE IF nr_of_variants = -1 THEN 0
    ELSE skip + nr_of_variants

\* variants(case_id, query, variant_ids, category, nr_of_variants, skip,
\* sort_key)
Variants(s, case_id, variant_type, variant_ids, category, nr_of_variants, skip, sort_key) ==
    Cursor(Sorting(SelectSeq(s, LAMBDA d : BuildQuery(d, case_id, variant_type,
                                                      variant_ids, category)),
                   sort_key),
           skip, Limit(variant_ids, nr_of_variants, skip))

\* the variant_ids, nr_of_variants and skip a caller passes
VariantIdsInputs == {None, Some(<<>>), Some(<< <<Chr1, 1>>, <<Chr1, 11>> >>)}
NrInputs == {-1, 0, 1, 2, 10}
SkipInputs == {0, 1, 2}

\* a call of variants()
VariantsCall ==
    /\ qry = NoQuery
    /\ \E case_obj \in CaseObjs, variant_type \in {None, Some("research")},
          variant_ids \in VariantIdsInputs, category \in {"snv", "sv"},
          nr_of_variants \in NrInputs, skip \in SkipInputs,
          sort_key \in {"variant_rank", "rank_score"} :
             qry' = [op |-> "variants", case_id |-> case_obj._id,
                     variant_type |-> variant_type, variant_ids |-> variant_ids,
                     category |-> category, nr_of_variants |-> nr_of_variants,
                     skip |-> skip, sort_key |-> sort_key,
                     result |-> Variants(store, case_obj._id, variant_type,
                                         variant_ids, category, nr_of_variants,
                                         skip, sort_key)]
    /\ UNCHANGED <<store, vcf, pc, arg, loc, ret, hist, env, batch>>

\* get_causatives: the distinct ids in the causatives of the cases that
\* have the institute among their collaborators
GetCausatives(cases, institute_id) ==
    UNION { Range(c.causatives[1]) :
              c \in {k \in Range(cases) : /\ institute_id \in k.collaborators
                                          /\ k.causatives # None} }

\* the ids check_causatives looks up without taking out the case's own
CausativesToCheckAll(institute_causative_variant_ids, case_obj) ==
    institute_causative_variant_ids

\* lines 251-256: with a case, the ids the case lists itself are taken out
CausativesToCheck(institute_causative_variant_ids, case_obj) ==
    IF case_obj # None
    THEN institute_causative_variant_ids \
            (IF case_obj[1].causatives # None
             THEN Range(case_obj[1].causatives[1]) ELSE {})
    ELSE institute_causative_variant_ids

\* check_causatives(case_obj, institute_obj): institute_obj is its _id
CheckCausatives(s, cases, case_obj, institute_obj) ==
    LET institute_id == IF case_obj # None THEN case_obj[1].owner
                        ELSE institute_obj[1]
        ids == CausativesToCheck(GetCausatives(cases, institute_id), case_obj)
        positional_variant_ids == {d.variant_id : d \in {k \in Range(s) : k._id \in ids}}
    IN  IF GetCausatives(cases, institute_id) = {} THEN <<>>
        ELSE SelectSeq(s, LAMBDA d :
                /\ d.variant_id \in positional_variant_ids
                /\ IF case_obj # None THEN d.case_id = case_obj[1]._id
                   ELSE d.institute = institute_obj[1])

\* a call of check_causatives, with a case of the collection or with an
\* institute
CheckCausativesCall ==
    /\ qry = NoQuery
    /\ \E case_obj \in {None} \cup {Some(c) : c \in Range(env.cases)},
          institute_obj \in {None, Some("inst1"), Some("inst2")} :
             /\ (case_obj = None) # (institute_obj = None)
             /\ qry' = [op |-> "check_causatives", case_obj |-> case_obj,
                        institute_obj |-> institute_obj,
                        result |-> CheckCausatives(store, env.cases, case_obj,
                                                   institute_obj)]
    /\ UNCHANGED <<store, vcf, pc, arg, loc, ret, hist, env, batch>>

\* variant(document_id) without case_id: find_one on the _id, None when no
\* such variant is stored (add_gene_info and is_par are left out)
Variant(s, document_id) == FindOne(s, document_id)

\* str.rsplit('_', 1)[0]: the string before its last "_", the whole string
\* when it has none
RECURSIVE RSplitFirst(_)
RSplitFirst(name) ==
    IF name = <<>> THEN <<>>
    ELSE IF name[Len(name)] = "_" THEN SubSeq(name, 1, Len(name) - 1)
    ELSE IF "_" \in Range(name) THEN RSplitFirst(SubSeq(name, 1, Len(name) - 1))
    ELSE name

\* str.startswith
StartsWith(name, prefix) ==
    /\ Len(prefix) <= Len(name)
    /\ SubSeq(name, 1, Len(prefix)) = prefix

\* the orders in which a set of ids can come out of the aggregation
Orders(S) ==
    {o \in [1..Cardinality(S) -> S] : \A i, j \in DOMAIN o : i # j => o[i] # o[j]}

\* lines 392-397: the loop of other_causatives over the causative ids left,
\* with the variants yielded so far.  other_variant['case_id'] raises
\* TypeError when variant() returned None.
RECURSIVE OtherCausativesLoop(_, _, _, _, _)
OtherCausativesLoop(s, ids, case_obj, variant_id, yielded) ==
    IF ids = <<>> THEN [yielded |-> yielded, error |-> None]
    ELSE LET other_variant == Variant(s, Head(ids))
         IN  IF other_variant = None
             THEN [yielded |-> yielded, error |-> Some("TypeError")]
             ELSE OtherCausativesLoop(s, Tail(ids), case_obj, variant_id,
                    IF /\ other_variant[1].case_id # case_obj._id
                       /\ StartsWith(other_variant[1].display_name, variant_id)
                    THEN Append(yielded, other_variant[1]) ELSE yielded)

\* a call of other_causatives with a case and a stored variant, read to its
\* end
OtherCausativesCall ==
    /\ qry = NoQuery
    /\ \E case_obj \in Range(env.cases), variant_obj \in Range(store) :
          \E institute_causatives \in
                Orders(GetCausatives(env.cases, variant_obj.institute)) :
             LET out == OtherCausativesLoop(store, institute_causatives, case_obj,
                                            RSplitFirst(variant_obj.display_name),
                                            <<>>)
             IN  qry' = [op |-> "other_causatives", case_obj |-> case_obj,
                         variant_obj |-> variant_obj,
                         result |-> out.yielded, error |-> out.error]
    /\ UNCHANGED <<store, vcf, pc, arg, loc, ret, hist, env, batch>>

\* hgnc_gene(gene_id): the gene of the catalog, None when there is none
HgncGene(genes, hgnc_id) ==
    IF \E g \in Range(genes) : g.hgnc_id = hgnc_id
    THEN Some(CHOOSE g \in Range(genes) : g.hgnc_id = hgnc_id)
    ELSE None

\* lines 638-654: the region after the genes left, from the region so far
RECURSIVE OverlapRegion(_, _, _, _)
OverlapRegion(genes, hgnc_ids, region_start, region_end) ==
    IF hgnc_ids = <<>> THEN [start |-> region_start, end |-> region_end]
    ELSE LET gene_obj == HgncGene(genes, Head(hgnc_ids))
         IN  IF gene_obj = None
             THEN OverlapRegion(genes, Tail(hgnc_ids), region_start, region_end)
             ELSE OverlapRegion(genes, Tail(hgnc_ids),
                    IF ~ TruthyInt(region_start) THEN Some(gene_obj[1].start)
                    ELSE IF gene_obj[1].start < region_start[1]
                         THEN Some(gene_obj[1].start) ELSE region_start,
                    IF ~ TruthyInt(region_end) THEN Some(gene_obj[1].end)
                    ELSE IF gene_obj[1].end > region_end[1]
                         THEN Some(gene_obj[1].end) ELSE region_end)

\* build_query with variant_type, chrom, start and end in the query: the
\* coordinates count when start and end are both given
RegionQuery(d, case_id, variant_type, category, chrom, start, end) ==
    /\ d.case_id = case_id
    /\ d.category = category
    /\ d.variant_type = variant_type
    /\ d.chromosome = chrom
    /\ (TruthyInt(start) /\ TruthyInt(end)) =>
          (d.position <= end[1] /\ d.end >= start[1])

\* overlapping that asks for the category of the variant itself
OverlapCategorySame(category) == category

\* line 632: 'snv' if variant_obj['category'] == 'sv' else 'sv'
OverlapCategory(category) == IF category = "sv" THEN "snv" ELSE "sv"

\* overlapping(variant_obj)
Overlapping(s, genes, variant_obj) ==
    LET region == OverlapRegion(genes, variant_obj.hgnc_ids, None, None)
    IN  SortDesc(SelectSeq(s, LAMBDA d :
            RegionQuery(d, variant_obj.case_id, variant_obj.variant_type,
                        OverlapCategory(variant_obj.category),
                        variant_obj.chromosome, region.start, region.end)))

\* a call of overlapping with a stored variant
OverlappingCall ==
    /\ qry = NoQuery
    /\ \E variant_obj \in Range(store) :
          qry' = [op |-> "overlapping", variant_obj |-> variant_obj,
                  result |-> Overlapping(store, env.genes, variant_obj)]
    /\ UNCHANGED <<store, vcf, pc, arg, loc, ret, hist, env, batch>>

\* result.deleted_count of the delete_many of delete_variants
DeletedCount(s, case_id, variant_type, category) ==
    Len(s) - Len(DeleteVariants(s, case_id, variant_type, category))

\* lines 399-414: delete_variants has no return statement; the
\* deleted_count goes to the log and the call returns None
DeleteVariantsReturn(deleted_count) == None

\* a call of delete_variants
DeleteVariantsCall ==
    /\ qry = NoQuery
    /\ \E case_id \in {"c1", "c2", "c3"}, variant_type \in VariantTypes,
          category \in {None} \cup {Some(c) : c \in Categories} :
          LET deleted_count == DeletedCount(store, case_id, variant_type, category)
          IN  /\ store' = DeleteVariants(store, case_id, variant_type, category)
              /\ qry' = [op |-> "delete_variants", case_id |-> case_id,
                         variant_type |-> variant_type, category |-> category,
                         before |-> store, logged |-> deleted_count,
                         result |-> DeleteVariantsReturn(deleted_count)]
    /\ UNCHANGED <<vcf, pc, arg, loc, ret, hist, env, batch>>

NextQuery ==
    \/ UpdateCompoundsCall
    \/ VariantsCall
    \/ CheckCausativesCall
    \/ OtherCausativesCall
    \/ OverlappingCall
    \/ DeleteVariantsCall

\* the query operations read the collections and depend on nothing else:
\* each behaviour is one call on one store and one case collection
SpecQuery == InitQuery /\ [][NextQuery]_vars

-----------------------------------------------------------------------------
(* Two calls of load_variants at the same time *)

Procs == {1, 2}

Other(p) == 3 - p

\* the files of the two calls: two files that share a record, and one whose
\* second record is malformed
ConcFileA ==
    << Rec(Chr1, 1, Some(3), FALSE, <<>>, <<>>),
       Rec(Chr1, 2, Some(9), FALSE, <<>>, <<>>) >>
ConcFileB ==
    << Rec(Chr1, 2, Some(9), FALSE, <<>>, <<>>),
       Rec(Chr1, 3, Some(4), FALSE, <<>>, <<>>) >>
ConcFileBad ==
    << Rec(Chr1, 4, Some(7), FALSE, <<>>, <<>>),
       Rec(Chr1, 5, Some(3), TRUE, <<>>, <<>>) >>
ConcFiles == {ConcFileA, ConcFileB, ConcFileBad}

\* the first call loads clinical snvs of c1; the second does the same, or
\* loads clinical svs of c1, or clinical snvs of c2
ConcCalls(p) ==
    IF p = 1
    THEN {[case_obj |-> CaseC1, variant_type |-> "clinical", category |-> "snv"]}
    ELSE {[case_obj |-> CaseC1, variant_type |-> "clinical", category |-> "snv"],
          [case_obj |-> CaseC1, variant_type |-> "clinical", category |-> "sv"],
          [case_obj |-> CaseC2, variant_type |-> "clinical", category |-> "snv"]}

\* the stores the two calls find: empty, or with variants of both cases
ConcStores ==
    { <<>>,
      Loaded(Loaded(<<>>, ConcFileB, CaseC1, "clinical", "snv"),
             ConcFileA, CaseC2, "clinical", "snv") }

\* lines 526-571 as one run: the store after the records of the file, and
\* whether a record raised and the variants were deleted
RECURSIVE StreamAll(_, _, _)
StreamAll(s, file, call) ==
    IF file = <<>> THEN [store |-> s, failed |-> FALSE]
    ELSE LET variant == Head(file)
             variant_obj == BuildVariant(variant, call.case_obj, call.variant_type,
                                         call.category)
         IN  IF ~ PassesRankFilter(variant.RankScore, DefaultThreshold,
                                   MtVariant(variant))
             THEN StreamAll(s, Tail(file), call)
             ELSE IF variant.malformed
             THEN [store |-> DeleteVariants(s, call.case_obj._id,
                                            call.variant_type, None),
                   failed |-> TRUE]
             ELSE IF IntegrityError(s, variant_obj)
             THEN StreamAll(s, Tail(file), call)
             ELSE StreamAll(LoadVariant(s, variant_obj), Tail(file), call)

\* a genome-wide call of load_variants that runs with no other call
RunAlone(s, file, call) ==
    LET streamed == StreamAll(s, file, call)
    IN  IF streamed.failed THEN streamed.store
        ELSE UpdateVariants(streamed.store, call.case_obj._id, call.variant_type,
                            call.category)

\* find_one_and_update that sets the index as the rank
SetVariantRankIndex(s, id, rank) ==
    [i \in DOMAIN s |->
        IF s[i]._id = id THEN [s[i] EXCEPT !.variant_rank = Some(rank - 1)]
        ELSE s[i]]

\* lines 309-317: find_one_and_update({'_id':}, {'$set': {'variant_rank':}});
\* nothing happens when the variant is no longer stored
SetVariantRank(s, id, rank) ==
    [i \in DOMAIN s |->
        IF s[i]._id = id THEN [s[i] EXCEPT !.variant_rank = Some(rank)]
        ELSE s[i]]

\* the call is between its first and its last step
Running(b) == b.pc \in {"streaming", "ranking"}

Ended(b) == b.pc \in {"done", "failed"}

InitConc ==
    /\ store \in ConcStores
    /\ vcf = <<>>
    /\ pc = "idle"
    /\ arg = NoArg
    /\ loc = NoLoc
    /\ ret = NoRet
    /\ hist = [loads |-> 0, pre_store |-> <<>>, rerun |-> FALSE]
    /\ env = NoEnv
    /\ qry = NoQuery
    /\ \E call1 \in ConcCalls(1), call2 \in ConcCalls(2), file1, file2 \in ConcFiles :
          batch = [procs |-> [p \in Procs |->
                                [pc |-> "idle",
                                 call |-> IF p = 1 THEN call1 ELSE call2,
                                 file |-> IF p = 1 THEN file1 ELSE file2,
                                 stream |-> <<>>, nr_inserted |-> 0,
                                 variants |-> <<>>, index |-> 0,
                                 result |-> None, error |-> None]],
                   start |-> store,
                   overlapped |-> FALSE]

\* lines 455-523: the call opens its file; it is genome-wide and has the
\* default threshold
BatchOpen(p) ==
    /\ batch.procs[p].pc = "idle"
    /\ batch' = [batch EXCEPT !.procs[p].pc = "streaming",
                              !.procs[p].stream = batch.procs[p].file,
                              !.overlapped = @ \/ Running(batch.procs[Other(p)])]
    /\ UNCHANGED <<store, vcf, pc, arg, loc, ret, hist, env, qry>>

\* lines 526-571: one record of the stream of the call
BatchStream(p) ==
    /\ batch.procs[p].pc = "streaming"
    /\ batch.procs[p].stream # <<>>
    /\ LET b == batch.procs[p]
           variant == Head(b.stream)
           variant_obj == BuildVariant(variant, b.call.case_obj,
                                       b.call.variant_type, b.call.category)
       IN  IF ~ PassesRankFilter(variant.RankScore, DefaultThreshold,
                                 MtVariant(variant))
           THEN /\ batch' = [batch EXCEPT !.procs[p].stream = Tail(b.stream)]
                /\ UNCHANGED store
           ELSE IF variant.malformed
           THEN /\ store' = DeleteVariants(store, b.call.case_obj._id,
                                           b.call.variant_type, None)
                /\ batch' = [batch EXCEPT !.procs[p].pc = "failed",
                                          !.procs[p].error = Some("malformed record")]
           ELSE IF IntegrityError(store, variant_obj)
           THEN /\ batch' = [batch EXCEPT !.procs[p].stream = Tail(b.stream)]
                /\ UNCHANGED store
           ELSE /\ store' = LoadVariant(store, variant_obj)
                /\ batch' = [batch EXCEPT !.procs[p].stream = Tail(b.stream),
                                          !.procs[p].nr_inserted = @ + 1]
    /\ UNCHANGED <<vcf, pc, arg, loc, ret, hist, env, qry>>

\* lines 296-300: update_variants reads the variants of the scope, sorted
BatchFind(p) ==
    /\ batch.procs[p].pc = "streaming"
    /\ batch.procs[p].stream = <<>>
    /\ LET b == batch.procs[p]
       IN  batch' = [batch EXCEPT
                        !.procs[p].pc = "ranking",
                        !.procs[p].index = 0,
                        !.procs[p].variants =
                            SortDesc(FindScope(store, b.call.case_obj._id,
                                               b.call.variant_type, b.call.category))]
    /\ UNCHANGED <<store, vcf, pc, arg, loc, ret, hist, env, qry>>

\* lines 305-317: update_variants sets the rank of the next variant it read
BatchRank(p) ==
    /\ batch.procs[p].pc = "ranking"
    /\ batch.procs[p].index < Len(batch.procs[p].variants)
    /\ LET b == batch.procs[p]
       IN  /\ store' = SetVariantRank(store, b.variants[b.index + 1]._id, b.index + 1)
           /\ batch' = [batch EXCEPT !.procs[p].index = b.index + 1]
    /\ UNCHANGED <<vcf, pc, arg, loc, ret, hist, env, qry>>

\* lines 614-616: the call returns nr_inserted
BatchReturn(p) ==
    /\ batch.procs[p].pc = "ranking"
    /\ batch.procs[p].index = Len(batch.procs[p].variants)
    /\ batch' = [batch EXCEPT !.procs[p].pc = "done",
                              !.procs[p].result = Some(batch.procs[p].nr_inserted)]
    /\ UNCHANGED <<store, vcf, pc, arg, loc, ret, hist, env, qry>>

NextConc ==
    \/ \E p \in Procs : BatchOpen(p)
    \/ \E p \in Procs : BatchStream(p)
    \/ \E p \in Procs : BatchFind(p)
    \/ \E p \in Procs : BatchRank(p)
    \/ \E p \in Procs : BatchReturn(p)

SpecConc == InitConc /\ [][NextConc]_vars

\* the calls of load_variants for the region of a gene, rank_threshold left
\* at its default
LoadGene ==
    /\ pc \in {"idle", "done", "failed"}
    /\ hist.loads < MaxLoads
    /\ \E case_obj \in CaseObjs, variant_type \in VariantTypes,
          category \in Categories, r \in GeneRegionInputs :
           /\ VariantFile(case_obj, variant_type, category) = None => r = NoRegion
           /\ Open(case_obj, variant_type, category, None, r)

NextGenes ==
    \/ LoadGene
    \/ StreamRecord
    \/ Renumber
    \/ RefreshCompounds
    \/ Return

SpecGenes == Init /\ [][NextGenes]_vars

\* the calls of load_variants when the database can fail while the batch
\* is finalized; the behaviours are followed up to the first such failure
NextFaults ==
    \/ Load
    \/ StreamRecord
    \/ Renumber
    \/ RefreshCompounds
    \/ Return
    \/ RenumberFails
    \/ RefreshFails

SpecFaults == Init /\ [][NextFaults]_vars

-----------------------------------------------------------------------------
(* The gene catalog: add_gene_info and get_id_transcripts *)

\* [0-9]
Digit09(c) == c \in {"0", "1", "2", "3", "4", "5", "6", "7", "8", "9"}

\* variant.py line 95, re.sub(r'\.[0-9]', '', tx): every dot that is
\* followed by a digit is removed together with that one digit
RECURSIVE StripVersion(_)
StripVersion(tx) ==
    IF tx = <<>> THEN <<>>
    ELSE IF Len(tx) >= 2 /\ tx[1] = "." /\ Digit09(tx[2])
         THEN StripVersion(SubSeq(tx, 3, Len(tx)))
         ELSE <<tx[1]>> \o StripVersion(Tail(tx))

\* the genes of the hgnc collection with their transcripts: gene 7 has a
\* transcript with an unversioned ref-sequence id, one whose id is the
\* first with a digit appended, one without ref-sequence ids and one with
\* a versioned id; gene 8 has a transcript with the id of the first
HgncTx(tx_id, refseq_ids, is_primary) ==
    [ensembl_transcript_id |-> tx_id, refseq_ids |-> refseq_ids,
     is_primary |-> is_primary]

HgncGenes ==
    << [hgnc_id |-> 7, chromosome |-> Chr1, start |-> 1, end |-> 2,
        incomplete_penetrance |-> TRUE,
        transcripts |->
            << HgncTx("E1", Some(<<<<"N", "1">>>>), TRUE),
               HgncTx("E2", Some(<<<<"N", "1", "2">>>>), FALSE),
               HgncTx("E3", None, FALSE),
               HgncTx("E4", Some(<<<<"N", "3", ".", "1">>, <<"N", "4">>>>), FALSE) >>],
       [hgnc_id |-> 8, chromosome |-> Chr1, start |-> 2, end |-> 11,
        incomplete_penetrance |-> FALSE,
        transcripts |-> << HgncTx("E5", Some(<<<<"N", "1">>>>), TRUE) >>] >>

\* the variant add_gene_info is given: a gene with the transcripts of the
\* catalog and one the catalog lacks, a gene no panel lists, and a gene
\* the catalog lacks
GeneInfoVariant ==
    [genes |->
        << [hgnc_id |-> 7,
            transcripts |-> <<[transcript_id |-> "E1"], [transcript_id |-> "E2"], [transcript_id |-> "E3"],
                              [transcript_id |-> "E4"], [transcript_id |-> "E9"]>>],
           [hgnc_id |-> 8, transcripts |-> <<[transcript_id |-> "E5"]>>],
           [hgnc_id |-> 9, transcripts |-> <<[transcript_id |-> "E1"]>>] >>]

\* the disease associated transcripts a panel curates for a gene
PanelTranscripts ==
    { <<>>,
      <<<<"N", "1">>>>,
      <<<<"N", "1", ".", "2">>>>,
      <<<<"N", "1", ".", "1", "2">>>>,
      <<<<"N", "3", ".", "1">>>>,
      <<<<"N", "3">>>>,
      <<<<"N", "9">>, <<"N", "4", ".", "7">>>> }

\* the entries of a panel for a gene, and the panels: one entry or none
GeneInfos ==
    { [hgnc_id |-> h, disease_associated_transcripts |-> txs,
       reduced_penetrance |-> txs = <<>>, mosaicism |-> h = 9,
       inheritance_models |-> IF txs = <<>> THEN {"AR"} ELSE {"AD"}] :
         h \in {7, 9}, txs \in PanelTranscripts }

Panels == { [genes |-> <<>>] } \cup { [genes |-> <<g>>] : g \in GeneInfos }

GenePanelsInputs ==
    {None, Some(<<>>)} \cup { Some(<<p>>) : p \in Panels }
    \cup { Some(<<p, q>>) : p, q \in Panels }

\* lines 48-54: the entries of the panels, in their order
RECURSIVE PanelGenes(_)
PanelGenes(gene_panels) ==
    IF gene_panels = <<>> THEN <<>>
    ELSE Head(gene_panels).genes \o PanelGenes(Tail(gene_panels))

\* extra_info.get(hgnc_id, [])
ExtraInfo(gene_panels, hgnc_id) ==
    SelectSeq(PanelGenes(gene_panels), LAMBDA g : g.hgnc_id = hgnc_id)

\* lines 64-70: transcripts_dict, the last transcript of an id
TranscriptsDict(hgnc_gene, tx_id) ==
    IF hgnc_gene = None THEN None
    ELSE LET txs == hgnc_gene[1].transcripts
             at == {i \in DOMAIN txs : txs[i].ensembl_transcript_id = tx_id}
         IN  IF at = {} THEN None
             ELSE Some(txs[CHOOSE i \in at : \A j \in at : j <= i])

\* lines 114-130: one transcript of the variant
AddTranscriptInfo(transcript, hgnc_gene, disease_associated_no_version) ==
    LET hgnc_transcript == TranscriptsDict(hgnc_gene, transcript.transcript_id)
        refseq_ids == IF hgnc_transcript = None THEN None
                      ELSE hgnc_transcript[1].refseq_ids
    IN  [transcript_id |-> transcript.transcript_id,
         refseq_ids |-> refseq_ids,
         is_disease_associated |->
             /\ refseq_ids # None
             /\ \E refseq_id \in Range(refseq_ids[1]) :
                    refseq_id \in disease_associated_no_version,
         is_primary |-> hgnc_transcript # None /\ hgnc_transcript[1].is_primary]

\* lines 58-135: one gene of the variant
AddGeneInfoGene(genes, variant_gene, gene_panels) ==
    LET hgnc_gene == HgncGene(genes, variant_gene.hgnc_id)
        panel_info == ExtraInfo(gene_panels, variant_gene.hgnc_id)
        curated == UNION { Range(g.disease_associated_transcripts) :
                             g \in Range(panel_info) }
        disease_associated_no_version == { StripVersion(tx) : tx \in curated }
    IN  [hgnc_id |-> variant_gene.hgnc_id,
         omim_penetrance |-> hgnc_gene # None /\ hgnc_gene[1].incomplete_penetrance,
         disease_associated_transcripts |-> curated,
         manual_penetrance |-> \E g \in Range(panel_info) : g.reduced_penetrance,
         mosaicism |-> \E g \in Range(panel_info) : g.mosaicism,
         manual_inheritance |-> UNION { g.inheritance_models : g \in Range(panel_info) },
         transcripts |->
             [k \in DOMAIN variant_gene.transcripts |->
                 AddTranscriptInfo(variant_gene.transcripts[k], hgnc_gene,
                                   disease_associated_no_version)],
         common |-> hgnc_gene]

\* add_gene_info(variant_obj, gene_panels), without the disease terms,
\* which come from another collection
AddGeneInfo(genes, variant_obj, gene_panels) ==
    LET panels == IF gene_panels = None THEN <<>> ELSE gene_panels[1]
    IN  [genes |-> [g \in DOMAIN variant_obj.genes |->
                        AddGeneInfoGene(genes, variant_obj.genes[g], panels)]]

\* a call of add_gene_info
AddGeneInfoCall ==
    /\ qry = NoQuery
    /\ \E gene_panels \in GenePanelsInputs :
          qry' = [op |-> "add_gene_info", variant_obj |-> GeneInfoVariant,
                  gene_panels |-> gene_panels,
                  result |-> AddGeneInfo(env.genes, GeneInfoVariant, gene_panels)]
    /\ UNCHANGED <<store, vcf, pc, arg, loc, ret, hist, env, batch>>

\* the documents of the transcript collection: transcripts of gene 7 with
\* NM, NR, XM and XR ref-sequence ids and without one, of several lengths,
\* and a transcript of gene 8
TxDoc(hgnc_id, transcript_id, refseq_id, length) ==
    [hgnc_id |-> hgnc_id, transcript_id |-> transcript_id,
     refseq_id |-> refseq_id, length |-> length]

TranscriptPool ==
    { TxDoc(7, "E1", Some(<<"N", "M", "1">>), 10),
      TxDoc(7, "E2", Some(<<"N", "R", "1">>), 20),
      TxDoc(7, "E3", Some(<<"X", "M", "1">>), 30),
      TxDoc(7, "E4", None, 10),
      TxDoc(7, "E5", None, 40),
      TxDoc(7, "E6", Some(<<"N", "M", "2">>), 5),
      TxDoc(7, "E7", Some(<<"N", "R", "2">>), 50),
      TxDoc(8, "E8", Some(<<"X", "R", "1">>), 5) }

\* the number of transcripts loaded
MaxTranscripts == 2

\* the transcript collection after load_hgnc_transcript (lines 22-30) of
\* up to MaxTranscripts documents of the pool, each once
TranscriptCollections ==
    { s \in SeqsUpTo(TranscriptPool, MaxTranscripts) :
        \A i, j \in DOMAIN s : i # j => s[i] # s[j] }

\* the order of the index hgncid_length (constants/indexes.py lines 46-51):
\* by descending length
RECURSIVE InsertByLength(_, _)
InsertByLength(x, sorted) ==
    IF sorted = <<>> THEN <<x>>
    ELSE IF x.length > Head(sorted).length THEN <<x>> \o sorted
    ELSE <<Head(sorted)>> \o InsertByLength(x, Tail(sorted))

RECURSIVE SortByLength(_)
SortByLength(s) ==
    IF s = <<>> THEN <<>>
    ELSE InsertByLength(s[Len(s)], SortByLength(SubSeq(s, 1, Len(s) - 1)))

\* lines 398-415, transcripts(build, hgnc_id): a find without a sort, which
\* returns the documents in the order of the index hgncid_length when the
\* index is loaded and used, and in the order of insertion otherwise
Transcripts(coll, indexed, hgnc_id) ==
    LET found == IF TruthyInt(hgnc_id)
                 THEN SelectSeq(coll, LAMBDA tx : tx.hgnc_id = hgnc_id[1])
                 ELSE coll
    IN  IF indexed THEN SortByLength(found) ELSE found

\* the transcript has a ref-sequence id that holds the symbol
RefseqHas(tx, symbol) == TruthyStr(tx.refseq_id) /\ Contains(symbol, tx.refseq_id[1])

\* lines 289-335: the set returned; an element is an optional transcript
\* id, None for the value of `longest` when the loop saw no transcript
GetIdTranscripts(transcripts) ==
    LET IsNm(tx) == RefseqHas(tx, <<"N", "M">>)
        IsNr(tx) == ~ IsNm(tx) /\ RefseqHas(tx, <<"N", "R">>)
        IsXm(tx) == ~ IsNm(tx) /\ ~ IsNr(tx) /\ RefseqHas(tx, <<"X", "M">>)
        identifier_transcripts ==
            { Some(tx.transcript_id) : tx \in {x \in Range(transcripts) : IsNm(x)} }
        nr == SelectSeq(transcripts, IsNr)
        xm == SelectSeq(transcripts, IsXm)
        longest == IF transcripts = <<>> THEN None
                   ELSE Some(transcripts[1].transcript_id)
    IN  IF identifier_transcripts # {} THEN identifier_transcripts
        ELSE IF nr # <<>> THEN { Some(nr[1].transcript_id) }
        ELSE IF xm # <<>> THEN { Some(xm[1].transcript_id) }
        ELSE { longest }

\* the hgnc ids asked for: two genes with transcripts and one without
HgncIdInputs == {7, 8, 9}

\* a call of get_id_transcripts
GetIdTranscriptsCall ==
    /\ qry = NoQuery
    /\ \E hgnc_id \in HgncIdInputs :
          qry' = [op |-> "get_id_transcripts", hgnc_id |-> hgnc_id,
                  result |-> GetIdTranscripts(
                      Transcripts(env.transcripts, env.indexed, Some(hgnc_id)))]
    /\ UNCHANGED <<store, vcf, pc, arg, loc, ret, hist, env, batch>>

\* the gene and transcript collections loaded, no call made yet
InitHgnc ==
    /\ store = <<>>
    /\ vcf = <<>>
    /\ pc = "idle"
    /\ arg = NoArg
    /\ loc = NoLoc
    /\ ret = NoRet
    /\ hist = [loads |-> 0, pre_store |-> <<>>, rerun |-> FALSE]
    /\ \E coll \in TranscriptCollections, indexed \in BOOLEAN :
          env = [cases |-> <<>>, genes |-> HgncGenes,
                 transcripts |-> coll, indexed |-> indexed]
    /\ qry = NoQuery
    /\ batch = NoBatch

NextHgnc ==
    \/ AddGeneInfoCall
    \/ GetIdTranscriptsCall

SpecHgnc == InitHgnc /\ [][NextHgnc]_vars

-----------------------------------------------------------------------------
(* What the claims speak of *)

CaseId == arg.case_obj[1]._id

\* the variant lies in the (case_id, category, variant_type) of the call
InCallScope(d) ==
    /\ d.case_id = CaseId
    /\ d.variant_type = arg.variant_type
    /\ d.category = arg.category

ScopeOf(s) == {d \in Range(s) : InCallScope(d)}

\* the call raised while it streamed the records
FailedStreaming == pc = "failed" /\ ret.raised_in = "streaming"

\* the records the call streams
CallStream == Range(VcfCall(vcf, loc.region))

\* the rank filter as the specification words it, on the threshold in use
Kept(rank_score, chrom) ==
    \/ rank_score = None
    \/ rank_score[1] > loc.rank_threshold[1]
    \/ chrom = ChrMT

RecordId(v) == DocumentId(CaseId, arg.variant_type, arg.category, v.CHROM, v.POS)

-----------------------------------------------------------------------------
(* C1 *)

\* C1: after a load_variants call that returns, the variant_rank values of
\* all stored variants of the call's (case_id, category, variant_type),
\* those of earlier loads included, are exactly 1..N, each once, and a
\* variant with a higher rank_score has no larger variant_rank than one
\* with a lower rank_score.
C1_RanksDense ==
    pc = "done" =>
        LET docs == ScopeOf(store)
        IN  /\ \A d \in docs : d.variant_rank # None
            /\ {d.variant_rank[1] : d \in docs} = 1..Cardinality(docs)
            /\ \A a, b \in docs :
                  (/\ a.rank_score # None
                   /\ b.rank_score # None
                   /\ a.rank_score[1] > b.rank_score[1])
                  => ~ (a.variant_rank[1] > b.variant_rank[1])

\* a region load has returned that added variants to a scope an earlier
\* load had filled, and the scope holds variants of different rank_score
C1_Witness ==
    /\ pc = "done"
    /\ loc.region # <<>>
    /\ loc.nr_inserted >= 1
    /\ ScopeOf(hist.pre_store) # {}
    /\ \E a, b \in ScopeOf(store) :
          /\ a.rank_score # None
          /\ b.rank_score # None
          /\ a.rank_score[1] > b.rank_score[1]

-----------------------------------------------------------------------------
(* C2 *)

\* C2: when load_variants has raised during streaming, the store holds no
\* variant of the call's case_id and variant_type: none of the records the
\* call inserted remains.
C2_RollbackTotal ==
    FailedStreaming =>
        \A d \in Range(store) :
            ~ (d.case_id = CaseId /\ d.variant_type = arg.variant_type)

\* a call has raised after it had inserted a record
C2_Witness ==
    /\ FailedStreaming
    /\ loc.nr_inserted >= 1

-----------------------------------------------------------------------------
(* C3 *)

\* C3: the rollback of a failed load_variants leaves every stored variant
\* outside the call's (case, variant_type, category) stored: variants of
\* another case, another variant_type, and another category of the same
\* case and variant_type.
C3_RollbackFrame ==
    FailedStreaming =>
        \A d \in Range(hist.pre_store) :
            ~ InCallScope(d) => d \in Range(store)

-----------------------------------------------------------------------------
(* C4 *)

\* C4: after load_variants has raised during streaming, the variants stored
\* for the call's scope are those stored before the call, and the error
\* raised is the original error.
C4_PreBatchState ==
    FailedStreaming =>
        /\ ScopeOf(store) = ScopeOf(hist.pre_store)
        /\ ret.error = Some("malformed record")

-----------------------------------------------------------------------------
(* C5 *)

\* C5: a load_variants call that repeats the arguments (so the records and
\* the scope) of a call that has just returned inserts nothing and returns
\* 0, stores no new variant, and leaves the variant_rank of every stored
\* variant as the first call left it.
C5_Idempotent ==
    (pc = "done" /\ hist.rerun) =>
        /\ ret.result = Some(0)
        /\ Ids(store) = Ids(hist.pre_store)
        /\ Len(store) = Len(hist.pre_store)
        /\ \A d \in Range(store) :
              \E e \in Range(hist.pre_store) :
                  e._id = d._id /\ e.variant_rank = d.variant_rank

\* a repeated call has returned, with at least two variants of equal
\* rank_score in its scope
C5_Witness ==
    /\ pc = "done"
    /\ hist.rerun
    /\ \E a, b \in ScopeOf(store) :
          a._id # b._id /\ a.rank_score = b.rank_score

-----------------------------------------------------------------------------
(* C6 *)

\* C6: a variant the call has stored has no rank score, or a rank score
\* strictly above the threshold in use, or lies on the mitochondrial
\* chromosome; and once the stream is at its end every record of the stream
\* that has no rank score, or one strictly above the threshold, or lies on
\* the mitochondrial chromosome is stored.  So a scored record off the
\* mitochondrial chromosome at or below the threshold is never stored by the
\* call.
C6_RankFilter ==
    pc \in {"streaming", "renumbered", "done"} =>
        /\ \A d \in Range(store) :
              d._id \notin Ids(hist.pre_store) => Kept(d.rank_score, d.chromosome)
        /\ pc \in {"renumbered", "done"} =>
              \A v \in CallStream :
                  Kept(v.RankScore, v.CHROM) => RecordId(v) \in Ids(store)

\* a call has returned that stored a mitochondrial record scored below the
\* threshold and left out a record scored exactly at the threshold
C6_Witness ==
    /\ pc = "done"
    /\ \E d \in Range(store) :
          /\ d._id \notin Ids(hist.pre_store)
          /\ d.chromosome = ChrMT
          /\ d.rank_score # None
          /\ d.rank_score[1] < loc.rank_threshold[1]
    /\ \E v \in CallStream :
          /\ v.RankScore = Some(loc.rank_threshold[1])
          /\ RecordId(v) \notin Ids(store)

-----------------------------------------------------------------------------
(* C7 *)

\* C7: the threshold in use is the caller's rank_threshold whenever one is
\* given, 0 included, with or without a region; without one it is 0 for a
\* load without region and -1000 for a region load.
C7_CallerThreshold ==
    pc \in {"streaming", "renumbered", "done"} =>
        loc.rank_threshold =
            IF arg.rank_threshold # None THEN arg.rank_threshold
            ELSE IF loc.region = <<>> THEN Some(0) ELSE Some(-1000)

-----------------------------------------------------------------------------
(* C8 *)

\* C8: a call that returns gives the number of variants it inserted: the
\* number of distinct records of its stream that pass the rank filter and
\* were not stored before.  For the ten-record file on an empty scope, with
\* threshold 0 and no region, it returns 8 and the variants of the scope
\* have variant_rank 1..8.
C8_ReturnsInserted ==
    pc = "done" =>
        /\ ret.result = Some(Len(store) - Len(hist.pre_store))
        /\ ret.result =
              Some(Cardinality({RecordId(v) : v \in {w \in CallStream :
                                    Kept(w.RankScore, w.CHROM)}}
                               \ Ids(hist.pre_store)))
        /\ (/\ vcf = ExampleFile
            /\ ScopeOf(hist.pre_store) = {}
            /\ loc.region = <<>>
            /\ loc.rank_threshold = Some(0))
           => /\ ret.result = Some(8)
              /\ {d.variant_rank : d \in ScopeOf(store)} = {Some(n) : n \in 1..8}

\* the ten-record file has been loaded into an empty scope
C8_Witness ==
    /\ pc = "done"
    /\ vcf = ExampleFile
    /\ ScopeOf(hist.pre_store) = {}
    /\ loc.region = <<>>
    /\ loc.rank_threshold = Some(0)
    /\ ret.result = Some(8)

-----------------------------------------------------------------------------
(* C9 and C10: one record of the stream *)

\* the record the call is about to stream passes the rank filter
NextPasses ==
    /\ pc = "streaming"
    /\ loc.stream # <<>>
    /\ Kept(Head(loc.stream).RankScore, Head(loc.stream).CHROM)

\* ... is well formed and its variant is already stored
NextIsDuplicate ==
    /\ NextPasses
    /\ ~ Head(loc.stream).malformed
    /\ RecordId(Head(loc.stream)) \in Ids(store)

\* ... and its fields are malformed
NextIsMalformed ==
    /\ NextPasses
    /\ Head(loc.stream).malformed

\* C9: a record whose variant is already stored does not stop the call and
\* starts no rollback: it is not counted as inserted, the store is left as
\* it was, and the call goes on with the next record of the stream.
C9_DuplicateSwallowed ==
    [][NextIsDuplicate =>
         /\ pc' = "streaming"
         /\ store' = store
         /\ ret' = ret
         /\ loc'.nr_inserted = loc.nr_inserted
         /\ loc'.stream = Tail(loc.stream)]_vars

\* a call has returned a count of at least 1 although a record of its
\* stream was stored before the call
C9_Witness ==
    /\ pc = "done"
    /\ ret.result # None
    /\ ret.result[1] >= 1
    /\ \E v \in CallStream :
          /\ Kept(v.RankScore, v.CHROM)
          /\ RecordId(v) \in Ids(hist.pre_store)

\* C10 as claimed: a record with malformed fields is skipped, the records
\* inserted before it stay stored, and the call goes on with the next
\* record.
C10_MalformedSkipped ==
    [][NextIsMalformed =>
         /\ pc' = "streaming"
         /\ store' = store
         /\ loc'.stream = Tail(loc.stream)]_vars

\* C10, amended: a record that passes the rank filter and whose fields are
\* malformed ends the call: no later record is streamed, no variant of the
\* case and variant_type is left stored, and the call raises the error and
\* returns no count.
C10_MalformedAborts ==
    [][NextIsMalformed =>
         /\ pc' = "failed"
         /\ ret'.error = Some("malformed record")
         /\ ret'.result = None
         /\ loc'.stream = loc.stream
         /\ \A d \in Range(store') :
               ~ (d.case_id = CaseId /\ d.variant_type = arg.variant_type)]_vars

\* a call has raised on a malformed record with variants of earlier loads
\* in its scope and records left in its stream
C10_Witness ==
    /\ FailedStreaming
    /\ Len(loc.stream) >= 2
    /\ Head(loc.stream).malformed
    /\ ScopeOf(hist.pre_store) # {}


-----------------------------------------------------------------------------
(* C11 *)

\* the call raised while it finalized the batch
FailedFinalizing == pc = "crashed" /\ ret.raised_in = "finalizing"

\* C11: an error raised while load_variants is Finalizing rolls the batch
\* back as an error during Streaming does: no variant the call inserted is
\* left, and no variant of the scope is left with a part of the ranks.
C11_FinalizingRollsBack ==
    FailedFinalizing =>
        /\ Ids(store) \subseteq Ids(hist.pre_store)
        /\ ScopeOf(store) = {}

-----------------------------------------------------------------------------
(* C12 *)

\* the call was rejected before it streamed a record
RejectedOpening == pc = "failed" /\ ret.raised_in = "opening"

\* the case of the call has no file registered for the variant_type and
\* category asked for
NoFileRegistered ==
    LET files == arg.case_obj[1].vcf_files
    IN  ~ \/ arg.variant_type = "clinical" /\ arg.category = "snv" /\ "vcf_snv" \in files
          \/ arg.variant_type = "clinical" /\ arg.category = "sv" /\ "vcf_sv" \in files
          \/ arg.variant_type = "clinical" /\ arg.category = "cancer" /\ "vcf_cancer" \in files
          \/ arg.variant_type = "research" /\ arg.category = "snv" /\ "vcf_snv_research" \in files
          \/ arg.variant_type = "research" /\ arg.category = "sv" /\ "vcf_sv_research" \in files
          \/ arg.variant_type = "research" /\ arg.category = "cancer" /\ "vcf_cancer_research" \in files

\* the caller gave a chromosome, no gene, and not both a start and an end
ChromWithoutBounds ==
    /\ arg.gene_obj = None
    /\ arg.chrom # None
    /\ arg.start = None \/ arg.end = None

\* C12: a call with no file registered for its (variant_type, category), or
\* with a chromosome but not both a start and an end, is rejected during
\* Opening, and a call rejected during Opening raises its error with the
\* variant store as it was when the call began.
C12_RejectedBeforeWrite ==
    /\ (pc # "idle" /\ (NoFileRegistered \/ ChromWithoutBounds)) => RejectedOpening
    /\ RejectedOpening =>
          /\ store = hist.pre_store
          /\ ret.result = None
          /\ ret.error \in {Some("Vcf file does not seem to exist"),
                            Some("Specify chrom start and end")}

\* a call with a chromosome and no bounds is rejected while variants of an
\* earlier load are stored
C12_Witness ==
    /\ RejectedOpening
    /\ store # <<>>
    /\ ChromWithoutBounds
    /\ ~ NoFileRegistered
    /\ ret.error = Some("Specify chrom start and end")

-----------------------------------------------------------------------------
(* C13, C14 *)

\* the gene of a call that was given one
CallGene == arg.gene_obj[1]

-----------------------------------------------------------------------------
(* C15 *)

\* the document a compound refers to, as update_compounds looks it up
CompoundTarget(c) ==
    IF qry.variant_objs # None /\ qry.variant_objs[1] # <<>>
    THEN FindOne(qry.variant_objs[1], c.variant)
    ELSE FindOne(store, c.variant)

\* C15: update_compounds returns one entry for every compound reference of
\* the variant, in the same number; a reference whose target variant is not
\* found is in the result with not_loaded true and its target id and
\* combined score.
C15_MissingKept ==
    qry.op = "update_compounds" =>
        /\ Len(qry.result) = Len(qry.variant.compounds)
        /\ \A i \in DOMAIN qry.variant.compounds :
              LET c == qry.variant.compounds[i]
              IN  /\ qry.result[i].variant = c.variant
                  /\ qry.result[i].combined_score = c.combined_score
                  /\ qry.result[i].not_loaded = (CompoundTarget(c) = None)

-----------------------------------------------------------------------------
(* C16 *)

\* the sorted matching set of the call, after its first skip variants
AfterSkip ==
    LET matching == SelectSeq(store, LAMBDA d :
                        BuildQuery(d, qry.case_id, qry.variant_type,
                                   qry.variant_ids, qry.category))
        sorted == Sorting(matching, qry.sort_key)
    IN  SubSeq(sorted, qry.skip + 1, Len(sorted))

\* the first n documents of a sequence
FirstN(s, n) == SubSeq(s, 1, IF n < Len(s) THEN n ELSE Len(s))

\* C16: variants() with nr_of_variants n other than -1 and no explicit ids
\* returns at most n variants, those that follow the first skip variants of
\* the sorted matching set; with n = -1 it returns every matching variant
\* after the first skip; with explicit variant_ids it returns as many as
\* there are ids at most.
C16_Pagination ==
    qry.op = "variants" =>
        IF qry.variant_ids # None /\ qry.variant_ids[1] # <<>>
        THEN qry.result = FirstN(AfterSkip, Len(qry.variant_ids[1]))
        ELSE IF qry.nr_of_variants = -1
        THEN qry.result = AfterSkip
        ELSE /\ Len(qry.result) <= qry.nr_of_variants
             /\ qry.result = FirstN(AfterSkip, qry.nr_of_variants)

-----------------------------------------------------------------------------
(* C17 *)

\* the causatives of the institute of the case check_causatives was called
\* with
InstituteCausatives ==
    UNION { Range(c.causatives[1]) :
              c \in {k \in Range(env.cases) :
                        /\ qry.case_obj[1].owner \in k.collaborators
                        /\ k.causatives # None} }

\* the causatives the case of the call lists itself
OwnCausatives ==
    IF qry.case_obj[1].causatives = None THEN {}
    ELSE Range(qry.case_obj[1].causatives[1])

\* C17: check_causatives(case) returns only variants of that case; the
\* variant_id of a returned variant is the variant_id of a stored causative
\* of the institute that the case does not list itself, and every variant
\* of the case with such a variant_id is returned; with no causatives in
\* the institute the result is empty.
C17_CheckCausatives ==
    (qry.op = "check_causatives" /\ qry.case_obj # None) =>
        LET looked_for == {d.variant_id : d \in {k \in Range(store) :
                              k._id \in InstituteCausatives \ OwnCausatives}}
        IN  /\ \A d \in Range(qry.result) :
                  /\ d.case_id = qry.case_obj[1]._id
                  /\ d.variant_id \in looked_for
            /\ \A d \in Range(store) :
                  (d.case_id = qry.case_obj[1]._id /\ d.variant_id \in looked_for)
                     => d \in Range(qry.result)
            /\ InstituteCausatives = {} => qry.result = <<>>

\* the institute has the causatives 1:11 of c1 and 1:1 of c2; c1 lists the
\* first itself, and the check for c1 returns its variants at 1:1 and not
\* the one at 1:11
C17_Witness ==
    /\ qry.op = "check_causatives"
    /\ qry.case_obj # None
    /\ qry.case_obj[1]._id = "c1"
    /\ OwnCausatives = {CausativeA11}
    /\ CausativeB \in InstituteCausatives
    /\ qry.result # <<>>
    /\ \A d \in Range(qry.result) : d.variant_id = <<Chr1, 1>>
    /\ \E d \in Range(store) : d._id = CausativeA11

-----------------------------------------------------------------------------
(* C18 *)

\* the display name of the variant of the call without its "_<type>" suffix
StrippedName ==
    SubSeq(qry.variant_obj.display_name, 1, Len(qry.variant_obj.display_name) - 2)

\* C18: other_causatives(case, variant) completes for every set of institute
\* causative ids and yields exactly the stored causatives of the variant's
\* institute that belong to another case and whose display name starts
\* with the variant's display name less its "_<type>" suffix; it yields no
\* variant of the given case.
C18_OtherCausatives ==
    qry.op = "other_causatives" =>
        /\ qry.error = None
        /\ \A d \in Range(qry.result) : d.case_id # qry.case_obj._id
        /\ Range(qry.result) =
              {d \in Range(store) :
                 /\ d._id \in GetCausatives(env.cases, qry.variant_obj.institute)
                 /\ d.case_id # qry.case_obj._id
                 /\ StartsWith(d.display_name, StrippedName)}

-----------------------------------------------------------------------------
(* C19 *)

\* C19: every variant overlapping(v) returns has the case_id and the
\* variant_type of v and another category than v: sv when v is an snv, snv
\* when v is an sv.
C19_OppositeCategory ==
    qry.op = "overlapping" =>
        \A d \in Range(qry.result) :
            /\ d.case_id = qry.variant_obj.case_id
            /\ d.variant_type = qry.variant_obj.variant_type
            /\ d.category # qry.variant_obj.category
            /\ qry.variant_obj.category = "snv" => d.category = "sv"
            /\ qry.variant_obj.category = "sv" => d.category = "snv"

\* overlapping of an sv returns snvs while the case has other svs and
\* another case has snvs in the region
C19_Witness ==
    /\ qry.op = "overlapping"
    /\ qry.variant_obj.category = "sv"
    /\ Len(qry.result) >= 2
    /\ \E d \in Range(store) : /\ d.case_id = qry.variant_obj.case_id
                                /\ d.category = "sv"
                                /\ d._id # qry.variant_obj._id
    /\ \E d \in Range(store) : /\ d.case_id # qry.variant_obj.case_id
                                /\ d.category = "snv"

-----------------------------------------------------------------------------
(* C20 *)

\* the variants stored before the call that match its case_id and
\* variant_type, and its category when it has one
MatchedBefore ==
    {d \in Range(qry.before) :
        /\ d.case_id = qry.case_id
        /\ d.variant_type = qry.variant_type
        /\ qry.category # None => d.category = qry.category[1]}

\* C20 as stated: delete_variants returns the number of variants it
\* deleted, the number of stored variants that matched before the call.
C20_ReturnsDeletedCount ==
    qry.op = "delete_variants" => qry.result = Some(Cardinality(MatchedBefore))

\* C20, amended: delete_variants returns nothing; it deletes the stored
\* variants that matched case_id and variant_type (and category when
\* given) and no other, and the deleted count it logs is their number.
C20_LogsDeletedCount ==
    qry.op = "delete_variants" =>
        /\ qry.result = None
        /\ qry.logged = Cardinality(MatchedBefore)
        /\ Range(store) = Range(qry.before) \ MatchedBefore
        /\ Len(store) = Len(qry.before) - qry.logged

\* a call with a category deletes some variants of the case and leaves
\* others of the same case and variant type
C20_Witness ==
    /\ qry.op = "delete_variants"
    /\ qry.category # None
    /\ qry.logged >= 2
    /\ \E d \in Range(store) : /\ d.case_id = qry.case_id
                                /\ d.variant_type = qry.variant_type

-----------------------------------------------------------------------------
(* C21, C22 *)

\* both calls have ended
BothEnded == batch # NoBatch /\ \A p \in Procs : Ended(batch.procs[p])

\* the variants of a case, in the order of the store
OfCase(s, case_id) == SelectSeq(s, LAMBDA d : d.case_id = case_id)

\* the store after the call of p has run alone on the store both calls found
AloneStore(p) == RunAlone(batch.start, batch.procs[p].file, batch.procs[p].call)

\* the stores after the two calls have run one after the other
SerialStores ==
    { RunAlone(AloneStore(p), batch.procs[Other(p)].file, batch.procs[Other(p)].call) :
        p \in Procs }

\* C21: two calls on different cases whose steps interleave in any way, one
\* of them failing and rolling back or not: when both have ended, the
\* stored variants of each case, their ranks included, are those the call
\* on that case leaves when it runs alone.
C21_CasesIndependent ==
    (/\ BothEnded
     /\ batch.procs[1].call.case_obj._id # batch.procs[2].call.case_obj._id) =>
        \A p \in Procs :
            OfCase(store, batch.procs[p].call.case_obj._id) =
                OfCase(AloneStore(p), batch.procs[p].call.case_obj._id)

\* the two calls ran interleaved on different cases, one rolled back, the
\* other returned a count, and variants of both cases were stored before
C21_Witness ==
    /\ BothEnded
    /\ batch.overlapped
    /\ batch.start # <<>>
    /\ batch.procs[1].call.case_obj._id # batch.procs[2].call.case_obj._id
    /\ batch.procs[1].pc = "failed"
    /\ batch.procs[2].result # None
    /\ batch.procs[2].result[1] >= 1

\* C22: two calls on the same (case, variant_type) can interleave
\* destructively.  When both have ended with a store that neither serial
\* order produces, the calls ran at the same time; and such an end is
\* reached (C22_Witness).
C22_DestructiveWhenOverlapped ==
    (BothEnded /\ store \notin SerialStores) => batch.overlapped

\* the two calls on the same case and variant_type have ended with a store
\* of neither serial order: one returned the count of the variants it
\* inserted, and the rollback of the other has deleted some of them
C22_Witness ==
    /\ BothEnded
    /\ store \notin SerialStores
    /\ batch.procs[1].call.case_obj._id = batch.procs[2].call.case_obj._id
    /\ \E p \in Procs :
          /\ batch.procs[p].result # None
          /\ batch.procs[p].result[1] >= 1
          /\ batch.procs[Other(p)].pc = "failed"
          /\ batch.procs[p].result[1] >
                Len(FindScope(store, batch.procs[p].call.case_obj._id,
                              batch.procs[p].call.variant_type,
                              batch.procs[p].call.category))

\* the two calls on the same scope have both returned and the ranks of the
\* scope are not 1..N
C22_WitnessRanks ==
    /\ BothEnded
    /\ batch.procs[1].call = batch.procs[2].call
    /\ \A p \in Procs : batch.procs[p].result # None
    /\ LET scope == FindScope(store, "c1", "clinical", "snv")
       IN  {d.variant_rank : d \in Range(scope)} # {Some(i) : i \in 1..Len(scope)}

-----------------------------------------------------------------------------
(* C23 *)

\* the variants of the call's scope in a store are ranked 1..N
RankedDense(s) ==
    LET docs == {d \in Range(s) : InCallScope(d)}
    IN  /\ \A d \in docs : d.variant_rank # None
        /\ {d.variant_rank[1] : d \in docs} = 1..Cardinality(docs)

\* C23: the phases of a run of load_variants come in the order Opening,
\* Streaming, Finalizing, Done.  A run starts streaming from no run or from
\* an ended one; the ranks are renumbered only once the stream is at its
\* end, and then the whole scope is ranked 1..N; a count is returned only
\* from the renumbered state, after the compound refresh when the load has
\* a region; a run that rolled back writes nothing more and returns no
\* count.
C23_PhaseOrder ==
    [][/\ (pc' = "streaming" /\ pc # "streaming") => pc \in {"idle", "done", "failed"}
       /\ (pc' = "renumbered") =>
             /\ pc = "streaming"
             /\ loc.stream = <<>>
             /\ RankedDense(store')
       /\ (pc = "streaming" /\ pc' = "streaming") => loc.stream # <<>>
       /\ (pc' = "done") =>
             /\ pc = "renumbered"
             /\ ret'.result = Some(loc.nr_inserted)
             /\ loc.region # <<>> =>
                   store' = RefreshRegion(store, CaseId, arg.variant_type,
                                          arg.category, loc.chrom[1],
                                          loc.start[1], loc.end[1])
             /\ loc.region = <<>> => store' = store
       /\ (ret'.result # None) => pc' = "done"
       /\ (pc = "failed") =>
             /\ store' = store
             /\ ret'.result = None
             /\ pc' \in {"failed", "streaming"}
             /\ pc' = "streaming" => hist'.loads = hist.loads + 1]_vars

\* a region load, the second run on a store that the first left empty, has
\* gone through all phases and returned a count
C23_Witness ==
    /\ pc = "done"
    /\ hist.loads = 2
    /\ hist.pre_store = <<>>
    /\ loc.region # <<>>
    /\ ret.result # None
    /\ ret.result[1] >= 2
    /\ RankedDense(store)

-----------------------------------------------------------------------------
(* C24 *)

\* the variant lies in the region of the call
InCallRegion(d) ==
    /\ d.chromosome = loc.chrom[1]
    /\ d.position >= loc.start[1]
    /\ d.position <= loc.end[1]

\* every compound of the variant whose target is stored carries the
\* target's rank_score and the summary of the target's genes
CompoundsRefreshed(d) ==
    \A i \in DOMAIN d.compounds :
        LET c == d.compounds[i]
            target == FindOne(store, c.variant)
        IN  target # None =>
                /\ "rank_score" \in DOMAIN c
                /\ c.rank_score = target[1].rank_score
                /\ c.genes = GeneSummary(target[1])

\* a load without a region that has returned left the compounds of every
\* variant as they were
CompoundsUntouched ==
    (pc = "done" /\ loc.region = <<>>) =>
        \A d \in Range(hist.pre_store) :
            \E k \in Range(store) : k._id = d._id /\ k.compounds = d.compounds

\* C24 as stated: after a region load has returned, every stored variant of
\* the case and variant_type inside the region that has compounds has been
\* refreshed; a load without a region leaves all compounds unchanged.
C24_RegionRefreshed ==
    /\ (pc = "done" /\ loc.region # <<>>) =>
          \A d \in Range(store) :
              (/\ d.case_id = CaseId
               /\ d.variant_type = arg.variant_type
               /\ InCallRegion(d)) => CompoundsRefreshed(d)
    /\ CompoundsUntouched

\* C24, amended: after a region load has returned, every stored variant of
\* the case, variant_type and category of the call inside the region that
\* has compounds has been refreshed: its compounds whose target is stored
\* carry the target's rank_score and gene summary.  Variants of another
\* category are not refreshed.  A load without a region leaves all
\* compounds unchanged.
C24_ScopeRefreshed ==
    /\ (pc = "done" /\ loc.region # <<>>) =>
          /\ \A d \in ScopeOf(store) : InCallRegion(d) => CompoundsRefreshed(d)
          /\ \A d \in Range(store) \ ScopeOf(store) :
                \E k \in Range(hist.pre_store) : k = d
    /\ CompoundsUntouched

\* a region load has returned and a variant of the region has kept a
\* refreshed compound, while a variant of another category of the case in
\* the region has compounds that were not refreshed
C24_Witness ==
    /\ pc = "done"
    /\ loc.region # <<>>
    /\ \E d \in ScopeOf(store) :
          /\ InCallRegion(d)
          /\ d.compounds # <<>>
          /\ CompoundsRefreshed(d)
    /\ \E d \in Range(store) \ ScopeOf(store) :
          /\ d.case_id = CaseId
          /\ d.variant_type = arg.variant_type
          /\ InCallRegion(d)
          /\ d.compounds # <<>>
          /\ ~ CompoundsRefreshed(d)

(* C25 *)

\* the combined scores of the list never rise
Descending(compounds) ==
    \A i, j \in DOMAIN compounds :
        i < j => compounds[i].combined_score >= compounds[j].combined_score

\* the place of the compound that refers to the variant in the list
CompoundIndex(compounds, id) ==
    CHOOSE i \in DOMAIN compounds : compounds[i].variant = id

\* compounds of the same combined score stand in the order they had in
\* the list before
TiesKeepOrder(before, after) ==
    \A i, j \in DOMAIN after :
        (i < j /\ after[i].combined_score = after[j].combined_score) =>
            CompoundIndex(before, after[i].variant)
                < CompoundIndex(before, after[j].variant)

\* C25: the compound list the refresh of a region load writes for a variant
\* is ordered by descending combined_score, and compounds of the same
\* combined_score keep the order they had in the list before the refresh.
C25_SortedStable ==
    [][(pc = "renumbered" /\ pc' = "done" /\ loc.region # <<>>) =>
          \A d \in ScopeOf(store) :
              (InCallRegion(d) /\ d.compounds # <<>>) =>
                  LET written == FindOne(store', d._id)[1].compounds
                  IN  /\ Descending(written)
                      /\ TiesKeepOrder(d.compounds, written)]_vars

\* a region load has returned and wrote a list of three compounds for a
\* variant whose file lists a lower score first: the highest first, then
\* two of the same score in the order of the file
C25_Witness ==
    /\ pc = "done"
    /\ loc.region # <<>>
    /\ vcf = TieFile
    /\ \E d \in ScopeOf(store) :
          /\ InCallRegion(d)
          /\ Len(d.compounds) = 3
          /\ d.compounds[1].combined_score = 7
          /\ d.compounds[2].combined_score = 4
          /\ d.compounds[3].combined_score = 4
          /\ d.compounds[2].variant
                = DocumentId(CaseId, arg.variant_type, arg.category, Chr1, 2)
          /\ d.compounds[3].variant
                = DocumentId(CaseId, arg.variant_type, arg.category, Chr1, 4)

(* C28 *)

\* the compound refers to a variant that the query of the region fetches
TargetFetched(c) ==
    LET target == FindOne(store, c.variant)
    IN  /\ target # None
        /\ InCallScope(target[1])
        /\ InCallRegion(target[1])

\* C28: after the compound refresh of a region load, the persisted compound
\* list of a variant of the region holds only compounds whose target was
\* fetched for the region; a compound whose target is stored for the case
\* outside the region is gone from the list.
C28_OutsideRegionDropped ==
    (pc = "done" /\ loc.region # <<>>) =>
        \A d \in ScopeOf(store) :
            InCallRegion(d) => \A i \in DOMAIN d.compounds : TargetFetched(d.compounds[i])

\* a region load has returned; a variant of the region had, at the entry
\* of the call, a compound whose target is still stored for the scope of
\* the call outside the region, and the compound is no longer in its list
C28_Witness ==
    /\ pc = "done"
    /\ loc.region # <<>>
    /\ \E d \in ScopeOf(store) :
          /\ InCallRegion(d)
          /\ \E e \in Range(hist.pre_store) :
                /\ e._id = d._id
                /\ \E i \in DOMAIN e.compounds :
                      LET target == FindOne(store, e.compounds[i].variant)
                      IN  /\ target # None
                          /\ InCallScope(target[1])
                          /\ ~ InCallRegion(target[1])
                          /\ \A j \in DOMAIN d.compounds :
                                d.compounds[j].variant # e.compounds[i].variant

(* C29 *)

\* the call, for a case with a file, was rejected with the error of a
\* missing start or end before a record was streamed or written
RejectedNoBounds ==
    /\ RejectedOpening
    /\ ret.error = Some("Specify chrom start and end")
    /\ ret.result = None
    /\ loc.region = <<>>
    /\ loc.stream = <<>>
    /\ store = hist.pre_store

C29_WitnessGene ==
    /\ RejectedNoBounds
    /\ arg.gene_obj = Some(GeneEdge)
    /\ loc.start = Some(0)
    /\ store # <<>>

(* C26 *)

\* the genes of the variant that resolve in the gene catalog
ResolvedGenes(variant_obj) ==
    { g \in Range(env.genes) : g.hgnc_id \in Range(variant_obj.hgnc_ids) }

\* the least start and the greatest end of the genes
MinStart(genes) == CHOOSE x \in {g.start : g \in genes} : \A g \in genes : x <= g.start
MaxEnd(genes) == CHOOSE x \in {g.end : g \in genes} : \A g \in genes : x >= g.end

\* C26: overlapping(v), for a variant with at least one gene that resolves
\* in the gene catalog, returns the variants of v's case, variant_type and
\* chromosome of the opposite category that overlap the interval from the
\* least start to the greatest end of the genes that resolve, sorted by
\* descending rank_score; genes that do not resolve play no part, and a
\* gene may start at 0.
C26_UnionInterval ==
    (qry.op = "overlapping" /\ ResolvedGenes(qry.variant_obj) # {}) =>
        LET v == qry.variant_obj
            genes == ResolvedGenes(v)
        IN  qry.result =
                SortDesc(SelectSeq(store, LAMBDA d :
                    /\ d.case_id = v.case_id
                    /\ d.variant_type = v.variant_type
                    /\ d.category = OverlapCategory(v.category)
                    /\ d.chromosome = v.chromosome
                    /\ d.position <= MaxEnd(genes)
                    /\ d.end >= MinStart(genes)))

(* C27 *)

\* the id without its version suffix: a dot and the digits that end it
VersionStripped(id) ==
    LET dots == {i \in DOMAIN id : id[i] = "."}
        last == CHOOSE i \in dots : \A j \in dots : j <= i
    IN  IF /\ dots # {}
           /\ last < Len(id)
           /\ \A k \in (last + 1)..Len(id) : Digit09(id[k])
        THEN SubSeq(id, 1, last - 1)
        ELSE id

\* the disease associated transcripts that the panels of the call curate
\* for the gene
CuratedFor(hgnc_id) ==
    IF qry.gene_panels = None THEN {}
    ELSE UNION { Range(g.disease_associated_transcripts) :
                   g \in { x \in UNION { Range(panel.genes) :
                                           panel \in Range(qry.gene_panels[1]) } :
                             x.hgnc_id = hgnc_id } }

\* the transcript of the canonical record of the gene with the id, if any
CanonicalTranscripts(hgnc_id, tx_id) ==
    { tx \in UNION { Range(g.transcripts) :
                       g \in {x \in Range(env.genes) : x.hgnc_id = hgnc_id} } :
        tx.ensembl_transcript_id = tx_id }

\* C27: add_gene_info marks a transcript of the variant is_disease_associated
\* exactly when the canonical record of its gene knows the transcript and
\* one of the transcript's ref-sequence ids equals, with the version suffix
\* stripped on both sides, a disease associated transcript that one of the
\* panels curates for the gene; a transcript of a gene without panel entry
\* is never marked.
C27_DiseaseAssociated ==
    qry.op = "add_gene_info" =>
        \A g \in DOMAIN qry.result.genes :
            LET gene == qry.result.genes[g]
            IN  \A k \in DOMAIN gene.transcripts :
                    gene.transcripts[k].is_disease_associated
                    <=> \E tx \in CanonicalTranscripts(gene.hgnc_id,
                                        gene.transcripts[k].transcript_id) :
                            /\ tx.refseq_ids # None
                            /\ \E refseq_id \in Range(tx.refseq_ids[1]),
                                  curated \in CuratedFor(gene.hgnc_id) :
                                   VersionStripped(refseq_id) = VersionStripped(curated)

(* C30 *)

\* the transcripts of the gene of the call in the transcript collection
GeneTranscripts == { tx \in Range(env.transcripts) : tx.hgnc_id = qry.hgnc_id }

\* the transcripts of the gene whose ref-sequence id holds the symbol
WithSymbol(symbol) == { tx \in GeneTranscripts : RefseqHas(tx, symbol) }

\* C30: get_id_transcripts(hgnc_id) returns the ids of all transcripts of
\* the gene with an NM ref-sequence id when there is one; otherwise exactly
\* one transcript with an NR id; otherwise exactly one with an XM id; and
\* when no transcript has a ref-sequence id, the longest transcript of the
\* gene alone.  The set is never empty and holds only ids of transcripts
\* of the gene.
C30_IdTranscripts ==
    qry.op = "get_id_transcripts" =>
        /\ qry.result # {}
        /\ qry.result \subseteq { Some(tx.transcript_id) : tx \in GeneTranscripts }
        /\ IF WithSymbol(<<"N", "M">>) # {}
           THEN qry.result = { Some(tx.transcript_id) : tx \in WithSymbol(<<"N", "M">>) }
           ELSE IF WithSymbol(<<"N", "R">>) # {}
           THEN \E tx \in WithSymbol(<<"N", "R">>) : qry.result = { Some(tx.transcript_id) }
           ELSE IF WithSymbol(<<"X", "M">>) # {}
           THEN \E tx \in WithSymbol(<<"X", "M">>) : qry.result = { Some(tx.transcript_id) }
           ELSE (GeneTranscripts # {} /\ \A tx \in GeneTranscripts : tx.refseq_id = None) =>
                    \E tx \in GeneTranscripts :
                        /\ \A other \in GeneTranscripts : other.length <= tx.length
                        /\ qry.result = { Some(tx.transcript_id) }


=============================================================================
